---- MODULE Spec2Model ----
(***************************************************************************)
(* A model of toado's typed query-construction and data-access layer.      *)
(*                                                                         *)
(* A statement is the sequence of text fragments the builders' format!     *)
(* and push_str calls emit, in order; its text is their concatenation.     *)
(* The storage engine tokenises the fragments, parses them against the     *)
(* grammar of the four statement kinds and executes them on the three      *)
(* tables created by Server::init.                                         *)
(***************************************************************************)
EXTENDS Integers, Sequences, FiniteSets, TLC

\* The names of the fields the records of the model carry
FieldNames ==
    DOMAIN [some |-> 0, t |-> 0, table |-> 0, has |-> 0, all |-> 0, n |-> 0,
            kind |-> 0, op |-> 0, args |-> 0, ok |-> 0, tables |-> 0,
            seq |-> 0, fk |-> 0, terms |-> 0, stmt |-> 0, term |-> 0,
            id |-> 0, changes |-> 0, rowid |-> 0, cols |-> 0, rows |-> 0,
            condition |-> 0, col |-> 0, ref |-> 0, cascade |-> 0,
            value |-> 0, conditions |-> 0, order_by |-> 0,
            order_by_default |-> 0, order_dir |-> 0, limit |-> 0,
            offset |-> 0, update |-> 0, task |-> 0, project |-> 0,
            name |-> 0, type |-> 0, notnull |-> 0, priority |-> 0,
            status |-> 0, item_priority |-> 0, start_time |-> 0,
            end_time |-> 0, repeat |-> 0, notes |-> 0, tasks |-> 0,
            projects |-> 0, task_assignments |-> 0, null |-> 0, v |-> 0,
            incomplete |-> 0, vals |-> 0, task_term |-> 0,
            project_term |-> 0, task_id |-> 0, task_name |-> 0,
            project_id |-> 0, project_name |-> 0, ids |-> 0, names |-> 0,
            pairs |-> 0, issued |-> 0, gone |-> 0, affected_rows |-> 0,
            cell |-> 0, after |-> 0, s |-> 0, chars |-> 0]

VARIABLES
    tables,          \* table name -> (row id -> (column name -> cell))
    sqlite_sequence, \* table name -> largest row id ever generated (AUTOINCREMENT)
    foreign_keys,    \* the connection's foreign_keys pragma
    steps,           \* number of mutating operations executed so far
    res              \* the last operation: what was called, issued and returned

vars == <<tables, sqlite_sequence, foreign_keys, steps, res>>

-----------------------------------------------------------------------------
(* Option values of the Rust code.                                         *)

None == [some |-> FALSE, v |-> 0]
Some(x) == [some |-> TRUE, v |-> x]

-----------------------------------------------------------------------------
(* Cells of the store: NULL, an integer, or a text.                        *)

NULL == [t |-> "null", v |-> 0]
IntCell(n) == [t |-> "int", v |-> n]
TextCell(s) == [t |-> "text", v |-> s]

\* Largest integer the model writes into a statement.
MaxInt == 12

IntRange == 0..MaxInt

\* The texts the store holds, in byte order.  They carry no quote, so each
\* is the content of a well-formed literal.
StrOrder ==
    <<" Buy milk ", "2024-01-01", "2025-01-01", "Buy milk", "Walk dog", "daily",
      "home", "incomplete", "memo", "work">>

Strings == {StrOrder[i] : i \in 1..Len(StrOrder)}

\* Texts with surrounding white space, and what str::trim makes of them.
Padded == {" Buy milk "}

\* A text with an apostrophe in it.  Between the builders' single quotes it
\* ends the literal early, and the statement that carries it does not parse.
Apostrophed == "it's"

trim(s) == IF s = " Buy milk " THEN "Buy milk" ELSE s

StrRank(s) == CHOOSE i \in 1..Len(StrOrder) : StrOrder[i] = s

-----------------------------------------------------------------------------
(* Tables (lib.rs, enum Tables) and the schema Server::init creates.       *)

TasksTable == "tasks"
ProjectsTable == "projects"
TaskAssignmentsTable == "task_assignments"

TableNames == {TasksTable, ProjectsTable, TaskAssignmentsTable}

Col(n, ty, nn) == [name |-> n, type |-> ty, notnull |-> nn]

\* CREATE TABLE statements of Server::init, column by column.
Schema ==
    [tasks |->
        <<Col("id", "INTEGER", TRUE), Col("name", "TEXT", TRUE),
          Col("priority", "INTEGER", TRUE), Col("status", "INTEGER", TRUE),
          Col("start_time", "TEXT", FALSE), Col("end_time", "TEXT", FALSE),
          Col("repeat", "TEXT", FALSE), Col("notes", "TEXT", FALSE)>>,
     projects |->
        <<Col("id", "INTEGER", TRUE), Col("name", "TEXT", TRUE),
          Col("start_time", "TEXT", TRUE), Col("end_time", "TEXT", FALSE),
          Col("notes", "TEXT", FALSE)>>,
     task_assignments |->
        <<Col("id", "INTEGER", TRUE), Col("task_id", "INTEGER", TRUE),
          Col("project_id", "INTEGER", TRUE)>>]

\* Foreign keys declared without an action on delete
foreign_keys_without_cascade ==
    {[table |-> TaskAssignmentsTable, col |-> "task_id", ref |-> TasksTable,
      cascade |-> FALSE],
     [table |-> TaskAssignmentsTable, col |-> "project_id", ref |-> ProjectsTable,
      cascade |-> FALSE]}

\* An id column declared without AUTOINCREMENT
primary_key_only == FALSE

\* id INTEGER PRIMARY KEY AUTOINCREMENT of the three tables of Server::init
autoincrement == TRUE

\* FOREIGN KEY ... REFERENCES ... ON DELETE CASCADE clauses of Server::init.
ForeignKeys ==
    {[table |-> TaskAssignmentsTable, col |-> "task_id", ref |-> TasksTable,
      cascade |-> TRUE],
     [table |-> TaskAssignmentsTable, col |-> "project_id", ref |-> ProjectsTable,
      cascade |-> TRUE]}

ColNames(t) == [i \in 1..Len(Schema[t]) |-> Schema[t][i].name]

ColSet(t) == {Schema[t][i].name : i \in 1..Len(Schema[t])}

ColDef(t, c) == CHOOSE d \in {Schema[t][i] : i \in 1..Len(Schema[t])} : d.name = c

-----------------------------------------------------------------------------
(* The storage engine: tokens.                                             *)
(* A fragment is either one of the literal pieces of the builders' format  *)
(* strings, which carries its own white space and punctuation, or a word   *)
(* (an identifier, a number, a quoted literal).  Words that follow each     *)
(* other with no piece between them run together into one token, as their  *)
(* characters do in the statement's text.                                  *)

Pieces ==
    {"SELECT ", " FROM ", " WHERE ", " ORDER BY ", " ", " LIMIT ", " OFFSET ",
     ";", "INSERT INTO ", "(", ")", ") VALUES(", ", ", ",", "UPDATE ", " SET ",
     " = ", " != ", " > ", " < ", " >= ", " <= ", " AND ", " OR ",
     " LIKE ", "DELETE FROM ", "*"}

PieceTokens(f) ==
    CASE f = "SELECT " -> <<"SELECT">>
      [] f = " FROM " -> <<"FROM">>
      [] f = " WHERE " -> <<"WHERE">>
      [] f = " ORDER BY " -> <<"ORDER", "BY">>
      [] f = " " -> <<>>
      [] f = " LIMIT " -> <<"LIMIT">>
      [] f = " OFFSET " -> <<"OFFSET">>
      [] f = "INSERT INTO " -> <<"INSERT", "INTO">>
      [] f = ") VALUES(" -> <<")", "VALUES", "(">>
      [] f = ", " -> <<",">>
      [] f = "UPDATE " -> <<"UPDATE">>
      [] f = " SET " -> <<"SET">>
      [] f = " = " -> <<"=">>
      [] f = " != " -> <<"!=">>
      [] f = " > " -> <<">">>
      [] f = " < " -> <<"<">>
      [] f = " >= " -> <<">=">>
      [] f = " <= " -> <<"<=">>
      [] f = " AND " -> <<"AND">>
      [] f = " OR " -> <<"OR">>
      [] f = " LIKE " -> <<"LIKE">>
      [] f = "DELETE FROM " -> <<"DELETE", "FROM">>
      [] OTHER -> <<f>>

RECURSIVE LexFrom(_, _, _)
LexFrom(frags, acc, glued) ==
    IF frags = <<>> THEN acc
    ELSE LET f == Head(frags) IN
         IF f \in Pieces
         THEN LexFrom(Tail(frags), acc \o PieceTokens(f), FALSE)
         ELSE IF glued
              THEN LexFrom(Tail(frags), [acc EXCEPT ![Len(acc)] = @ \o f], TRUE)
              ELSE LexFrom(Tail(frags), Append(acc, f), TRUE)

Tokens(stmt) == LexFrom(stmt, <<>>, FALSE)

\* The statement's text: the fragments in order.
RECURSIVE Text(_)
Text(stmt) == IF stmt = <<>> THEN "" ELSE Head(stmt) \o Text(Tail(stmt))

At(ts, i) == IF i \in 1..Len(ts) THEN ts[i] ELSE ""

Pos(ts, tok) ==
    IF \E i \in 1..Len(ts) : ts[i] = tok
    THEN CHOOSE i \in 1..Len(ts) : ts[i] = tok /\ \A j \in 1..(i - 1) : ts[j] # tok
    ELSE 0

RECURSIVE Split(_, _)
Split(ts, sep) ==
    LET p == Pos(ts, sep) IN
    IF p = 0 THEN <<ts>>
    ELSE <<SubSeq(ts, 1, p - 1)>> \o Split(SubSeq(ts, p + 1, Len(ts)), sep)

-----------------------------------------------------------------------------
(* The storage engine: literals and column affinity.                       *)

NumStrings == {ToString(n) : n \in IntRange}

StrToInt(s) == CHOOSE n \in IntRange : ToString(n) = s

Quoted(s) == "'" \o s \o "'"

IsLit(tok) ==
    \/ tok = "NULL"
    \/ tok \in NumStrings
    \/ \E s \in Strings \cup NumStrings : tok = Quoted(s)

LitCell(tok) ==
    IF tok = "NULL" THEN NULL
    ELSE IF tok \in NumStrings THEN IntCell(StrToInt(tok))
    ELSE TextCell(CHOOSE s \in Strings \cup NumStrings : tok = Quoted(s))

\* What a column of declared type ty stores for a value.
Affinity(ty, cell) ==
    IF ty = "INTEGER" /\ cell.t = "text" /\ cell.v \in NumStrings
    THEN IntCell(StrToInt(cell.v))
    ELSE IF ty = "TEXT" /\ cell.t = "int" THEN TextCell(ToString(cell.v))
    ELSE cell

\* The order of cells: NULL, then integers, then texts in byte order.
TypeRank(c) == IF c.t = "null" THEN 0 ELSE IF c.t = "int" THEN 1 ELSE 2

CellLess(a, b) ==
    \/ TypeRank(a) < TypeRank(b)
    \/ a.t = "int" /\ b.t = "int" /\ a.v < b.v
    \/ a.t = "text" /\ b.t = "text" /\ StrRank(a.v) < StrRank(b.v)


-----------------------------------------------------------------------------
(* The storage engine: statements.                                         *)
(* A store is [tables, seq, fk]; executing a statement yields              *)
(* [ok, tables, seq, changes, rowid, cols, rows].  Each statement is       *)
(* taken apart in stages, a stage handing what it found to the next.       *)

Store(t, q, fk) == [tables |-> t, seq |-> q, fk |-> fk]

Failed(st) ==
    [ok |-> FALSE, tables |-> st.tables, seq |-> st.seq, changes |-> 0,
     rowid |-> 0, cols |-> <<>>, rows |-> <<>>]

Done(st, tb, sq, n, id) ==
    [ok |-> TRUE, tables |-> tb, seq |-> sq, changes |-> n, rowid |-> id,
     cols |-> <<>>, rows |-> <<>>]

\* Whatever follows the first statement is not compiled; the builders only
\* ever leave statement terminators there.
Terminated(ts, j) == \A i \in j..Len(ts) : ts[i] = ";"

\* Where the first statement ends
End(ts) == IF Pos(ts, ";") = 0 THEN Len(ts) + 1 ELSE Pos(ts, ";")

CmpOps == {"=", "!=", ">", "<", ">=", "<="}

\* The words the callers search names for, and the names that contain them.
Words == {"milk", "k"}

Contains(s, w) ==
    \/ w = "milk" /\ s \in {"Buy milk", " Buy milk "}
    \/ w = "k" /\ s \in {"Buy milk", " Buy milk ", "Walk dog", "work"}

LikePattern(w) == Quoted("%" \o w \o "%")

\* The WHERE clause between token k and token e: the comparisons AND joins.
Where(ts, k, e) ==
    IF At(ts, k) = "WHERE"
    THEN [has |-> TRUE, ok |-> TRUE, terms |-> Split(SubSeq(ts, k + 1, e - 1), "AND")]
    ELSE [has |-> FALSE, ok |-> k = e, terms |-> <<>>]

TermOk(term, t) ==
    /\ Len(term) = 3
    /\ term[1] \in ColSet(t)
    /\ \/ term[2] \in CmpOps /\ IsLit(term[3])
       \/ term[2] = "LIKE" /\ \E w \in Words : term[3] = LikePattern(w)

WhereOk(w, t) == w.ok /\ \A i \in 1..Len(w.terms) : TermOk(w.terms[i], t)

Compare(op, c, l) ==
    /\ c.t # "null"
    /\ l.t # "null"
    /\ CASE op = "=" -> c = l
         [] op = "!=" -> c # l
         [] op = "<" -> CellLess(c, l)
         [] op = ">" -> CellLess(l, c)
         [] op = "<=" -> CellLess(c, l) \/ c = l
         [] op = ">=" -> CellLess(l, c) \/ c = l

TermHolds(term, t, row) ==
    IF term[2] = "LIKE"
    THEN row[term[1]].t = "text"
         /\ \E w \in Words : term[3] = LikePattern(w) /\ Contains(row[term[1]].v, w)
    ELSE Compare(term[2], row[term[1]],
                 Affinity(ColDef(t, term[1]).type, LitCell(term[3])))

\* The rows of a table a WHERE clause selects; every row without one.
Matching(tb, t, w) ==
    {id \in DOMAIN tb : \A i \in 1..Len(w.terms) : TermHolds(w.terms[i], t, tb[id])}

Max(S) == CHOOSE x \in S : \A y \in S : y <= x

FkHolds(st, t, row) ==
    st.fk =>
        \A k \in ForeignKeys :
            k.table = t =>
                \/ row[k.col].t = "null"
                \/ row[k.col].t = "int" /\ row[k.col].v \in DOMAIN st.tables[k.ref]

NotNullHolds(t, row) ==
    \A c \in ColSet(t) \ {"id"} : ColDef(t, c).notnull => row[c].t # "null"

\* name = value pairs: the columns of an INSERT with its values, the
\* assignments of an UPDATE.  A column given twice takes the last value.
Given(pairs, c) == {i \in 1..Len(pairs) : pairs[i][1] = c}

ValueOf(t, c, pairs) ==
    Affinity(ColDef(t, c).type, LitCell(pairs[Max(Given(pairs, c))][2]))

PutRow(st, t, id, row) ==
    IF ~NotNullHolds(t, row) \/ ~FkHolds(st, t, row) THEN Failed(st)
    ELSE Done(st,
              [st.tables EXCEPT ![t] =
                  [i \in DOMAIN @ \cup {id} |->
                      IF i = id
                      THEN [c \in ColSet(t) |-> IF c = "id" THEN IntCell(id) ELSE row[c]]
                      ELSE @[i]]],
              [st.seq EXCEPT ![t] = id], 1, id)

\* The row id of a new row: with AUTOINCREMENT one more than the largest the
\* table ever held, without it one more than the largest it holds.
NextRowId(st, t) ==
    IF autoincrement THEN Max({st.seq[t]} \cup DOMAIN st.tables[t]) + 1
    ELSE Max({0} \cup DOMAIN st.tables[t]) + 1

InsertRow(st, t, cols, vals, ok) ==
    IF ~(/\ ok
         /\ Len(cols) = Len(vals)
         /\ \A i \in 1..Len(cols) :
                /\ Len(cols[i]) = 1 /\ cols[i][1] \in ColSet(t) \ {"id"}
                /\ Len(vals[i]) = 1 /\ IsLit(vals[i][1])
         /\ \A i, j \in 1..Len(cols) : cols[i] = cols[j] => i = j)
    THEN Failed(st)
    ELSE PutRow(st, t, NextRowId(st, t),
                [c \in ColSet(t) \ {"id"} |->
                    IF \E i \in 1..Len(cols) : cols[i][1] = c
                    THEN ValueOf(t, c, [i \in 1..Len(cols) |-> <<cols[i][1], vals[i][1]>>])
                    ELSE NULL])

InsertVals(st, t, cols, rest, ok) ==
    InsertRow(st, t, cols, Split(SubSeq(rest, 1, Pos(rest, ")") - 1), ","),
              ok /\ Pos(rest, ")") > 1 /\ Terminated(rest, Pos(rest, ")") + 1))

InsertCols(ts, st, t, pClose) ==
    InsertVals(st, t, Split(SubSeq(ts, 5, pClose - 1), ","),
               SubSeq(ts, pClose + 3, Len(ts)),
               (/\ At(ts, 2) = "INTO" /\ t \in TableNames
                /\ At(ts, 4) = "(" /\ pClose > 5
                /\ At(ts, pClose + 1) = "VALUES" /\ At(ts, pClose + 2) = "("))

\* INSERT INTO t(c1, ...) VALUES(v1, ...)
ExecInsert(ts, st) == InsertCols(ts, st, At(ts, 3), Pos(ts, ")"))

WriteRows(st, t, hit, new) ==
    IF \E i \in hit : ~NotNullHolds(t, new[i]) THEN Failed(st)
    ELSE Done(st,
              [st.tables EXCEPT ![t] =
                  [i \in DOMAIN @ |-> IF i \in hit THEN new[i] ELSE @[i]]],
              st.seq, Cardinality(hit), 0)

\* No caller assigns the id column.
UpdateRows(st, t, sets, w, ok) ==
    IF ~(/\ ok
         /\ WhereOk(w, t)
         /\ \A i \in 1..Len(sets) :
                /\ Len(sets[i]) = 3
                /\ sets[i][1] \in ColSet(t) \ {"id"}
                /\ sets[i][2] = "="
                /\ IsLit(sets[i][3]))
    THEN Failed(st)
    ELSE WriteRows(st, t, Matching(st.tables[t], t, w),
                   [i \in DOMAIN st.tables[t] |->
                       [c \in ColSet(t) |->
                           IF \E j \in 1..Len(sets) : sets[j][1] = c
                           THEN ValueOf(t, c, [j \in 1..Len(sets) |->
                                                  <<sets[j][1], sets[j][3]>>])
                           ELSE st.tables[t][i][c]]])

UpdateSets(ts, st, t, stop) ==
    UpdateRows(st, t, Split(SubSeq(ts, 4, stop - 1), ","), Where(ts, stop, End(ts)),
               (/\ t \in TableNames /\ At(ts, 3) = "SET" /\ Terminated(ts, End(ts))))

\* UPDATE t SET c1 = v1, ... [WHERE cond]
ExecUpdate(ts, st) ==
    UpdateSets(ts, st, At(ts, 2),
               IF Pos(ts, "WHERE") # 0 THEN Pos(ts, "WHERE") ELSE End(ts))

\* The rows of a referencing table that point at one of the rows hit
Referencing(st, k, hit) ==
    {c \in DOMAIN st.tables[k.table] :
        /\ st.tables[k.table][c][k.col].t = "int"
        /\ st.tables[k.table][c][k.col].v \in hit}

\* The rows of table u left when the rows hit leave table t
Kept(st, t, hit, u) ==
    IF u = t THEN DOMAIN st.tables[t] \ hit
    ELSE DOMAIN st.tables[u]
         \ UNION {Referencing(st, k, hit) :
                    k \in {k \in ForeignKeys :
                              k.ref = t /\ st.fk /\ k.table = u /\ k.cascade}}

Cascade(st, t, hit) ==
    IF st.fk /\ \E k \in ForeignKeys :
                    k.ref = t /\ ~k.cascade /\ Referencing(st, k, hit) # {}
    THEN Failed(st)
    ELSE Done(st,
              [tasks |-> [i \in Kept(st, t, hit, TasksTable) |-> st.tables.tasks[i]],
               projects |->
                   [i \in Kept(st, t, hit, ProjectsTable) |-> st.tables.projects[i]],
               task_assignments |->
                   [i \in Kept(st, t, hit, TaskAssignmentsTable) |->
                       st.tables.task_assignments[i]]],
              st.seq, Cardinality(hit), 0)

DeleteRows(st, t, w, ok) ==
    IF ~(ok /\ t \in TableNames /\ WhereOk(w, t)) THEN Failed(st)
    ELSE Cascade(st, t, Matching(st.tables[t], t, w))

\* DELETE FROM t [WHERE cond]
ExecDelete(ts, st) ==
    DeleteRows(st, At(ts, 3), Where(ts, 4, End(ts)),
               At(ts, 2) = "FROM" /\ Terminated(ts, End(ts)))

\* The row ids in the order ORDER BY col dir yields; rows with equal keys
\* come in row id order.
Before(tb, col, dir, i, j) ==
    IF dir = "ASC"
    THEN CellLess(tb[i][col], tb[j][col])
         \/ (~CellLess(tb[j][col], tb[i][col]) /\ i < j)
    ELSE CellLess(tb[j][col], tb[i][col])
         \/ (~CellLess(tb[i][col], tb[j][col]) /\ i < j)

Sorted(tb, ids, col, dir) ==
    [k \in 1..Cardinality(ids) |->
        CHOOSE i \in ids :
            Cardinality({j \in ids \ {i} : Before(tb, col, dir, j, i)}) = k - 1]

\* ORDER BY col dir [LIMIT n [OFFSET m]] ;*
OrderOk(tail, t) ==
    /\ At(tail, 2) = "BY"
    /\ At(tail, 3) \in ColSet(t)
    /\ At(tail, 4) \in {"ASC", "DESC"}
    /\ IF At(tail, 5) # "LIMIT" THEN Terminated(tail, 5)
       ELSE /\ At(tail, 6) \in NumStrings
            /\ IF At(tail, 7) # "OFFSET" THEN Terminated(tail, 7)
               ELSE At(tail, 8) \in NumStrings /\ Terminated(tail, 9)

Page(all, tail) ==
    SubSeq(all,
           (IF At(tail, 7) = "OFFSET" THEN StrToInt(At(tail, 8)) ELSE 0) + 1,
           IF At(tail, 5) = "LIMIT"
              /\ (IF At(tail, 7) = "OFFSET" THEN StrToInt(At(tail, 8)) ELSE 0)
                 + StrToInt(At(tail, 6)) < Len(all)
           THEN (IF At(tail, 7) = "OFFSET" THEN StrToInt(At(tail, 8)) ELSE 0)
                + StrToInt(At(tail, 6))
           ELSE Len(all))

Rows(st, tb, cols, page) ==
    [ok |-> TRUE, tables |-> st.tables, seq |-> st.seq, changes |-> 0, rowid |-> 0,
     cols |-> cols,
     rows |-> [i \in 1..Len(page) |->
                  [c \in {cols[j] : j \in 1..Len(cols)} |-> tb[page[i]][c]]]]

SelectRows(st, t, names, w, tail, ok) ==
    IF ~(/\ ok /\ t \in TableNames
         /\ WhereOk(w, t)
         /\ OrderOk(tail, t)
         /\ \/ names = << <<"*">> >>
            \/ \A i \in 1..Len(names) : Len(names[i]) = 1 /\ names[i][1] \in ColSet(t))
    THEN Failed(st)
    ELSE Rows(st, st.tables[t],
              IF names = << <<"*">> >> THEN ColNames(t)
              ELSE [i \in 1..Len(names) |-> names[i][1]],
              Page(Sorted(st.tables[t], Matching(st.tables[t], t, w), tail[3], tail[4]),
                   tail))

SelectFrom(ts, st, pFrom, pOrder) ==
    SelectRows(st, At(ts, pFrom + 1), Split(SubSeq(ts, 2, pFrom - 1), ","),
               Where(ts, pFrom + 2, pOrder), SubSeq(ts, pOrder, Len(ts)),
               pFrom > 2 /\ pOrder > pFrom + 1)

\* SELECT cols FROM t [WHERE cond] ORDER BY col dir [LIMIT n [OFFSET m]]
ExecSelect(ts, st) == SelectFrom(ts, st, Pos(ts, "FROM"), Pos(ts, "ORDER"))

\* SELECT COUNT(*) FROM t
ExecCount(ts, st) ==
    IF At(ts, 3) = "FROM" /\ At(ts, 4) \in TableNames /\ Terminated(ts, 5)
    THEN [ok |-> TRUE, tables |-> st.tables, seq |-> st.seq, changes |-> 0,
          rowid |-> 0, cols |-> <<"COUNT(*)">>,
          rows |-> <<IntCell(Cardinality(DOMAIN st.tables[At(ts, 4)]))>>]
    ELSE Failed(st)

Run(ts, st) ==
    CASE At(ts, 1) = "SELECT" /\ At(ts, 2) = "COUNT(*)" -> ExecCount(ts, st)
      [] At(ts, 1) = "INSERT" -> ExecInsert(ts, st)
      [] At(ts, 1) = "UPDATE" -> ExecUpdate(ts, st)
      [] At(ts, 1) = "DELETE" -> ExecDelete(ts, st)
      [] At(ts, 1) = "SELECT" -> ExecSelect(ts, st)
      [] OTHER -> Failed(st)

\* Connection::execute / Connection::prepare on a rendered statement.
Execute(stmt, st) == Run(Tokens(stmt), st)

-----------------------------------------------------------------------------
(* queries.rs: the primitives of the query builders.                       *)
(* A String the builders hold or return is a sequence of fragments.        *)

RECURSIVE Join(_, _)
Join(items, sep) ==
    IF items = <<>> THEN <<>>
    ELSE IF Len(items) = 1 THEN items[1]
    ELSE items[1] \o <<sep>> \o Join(Tail(items), sep)

quote_string(str) == "'" \o str \o "'"

\* enum OrderBy / OrderDir and their Display
OrderBys == {"Id", "Name", "Priority"}

OrderBy_fmt(o) ==
    CASE o = "Id" -> "id"
      [] o = "Name" -> "name"
      [] o = "Priority" -> "priority"

OrderDirs == {"Asc", "Desc"}

OrderDir_fmt(d) == IF d = "Asc" THEN "ASC" ELSE "DESC"

\* enum RowLimit
RowLimit_All == [all |-> TRUE, n |-> 0]
RowLimit_Limit(n) == [all |-> FALSE, n |-> n]

\* enum QueryCols and its Display
QueryCols_All == [all |-> TRUE, cols |-> <<>>]
QueryCols_Some(cols) == [all |-> FALSE, cols |-> cols]

QueryCols_fmt(q) ==
    IF q.all THEN <<"*">>
    ELSE Join([i \in 1..Len(q.cols) |-> <<q.cols[i]>>], ", ")

\* enum QueryConditions and its Display; the values are already strings.
Equal(col, value) == [kind |-> "Equal", col |-> col, value |-> value]

QueryConditions_fmt(c) ==
    CASE c.kind = "Equal" -> <<c.col, " = ", c.value>>
      [] c.kind = "NotEqual" -> <<c.col, " != ", c.value>>
      [] c.kind = "GreaterThan" -> <<c.col, " > ", c.value>>
      [] c.kind = "LessThan" -> <<c.col, " < ", c.value>>
      [] c.kind = "GreaterThanOrEqual" -> <<c.col, " >= ", c.value>>
      [] c.kind = "LessThanOrEqual" -> <<c.col, " <= ", c.value>>
      [] c.kind = "Like" -> <<c.col, " LIKE ", c.value>>

\* enum UpdateAction<T>: Some(value), Null, None
UpdateAction_Some(x) == [kind |-> "Some", v |-> x]
UpdateAction_Null == [kind |-> "Null", v |-> ""]
UpdateAction_None == [kind |-> "None", v |-> ""]

UpdateAction_map_from(from, f) ==
    IF from.kind = "Some" THEN UpdateAction_Some(f[from.v]) ELSE from

is_none(a) == a.kind = "None"

to_statment(a, col) ==
    CASE a.kind = "Some" -> <<col, " = ", "'" \o a.v \o "'">>
      [] a.kind = "Null" -> <<col, " = ", "NULL">>
      [] a.kind = "None" -> <<"">>

\* impl From<Option<T>> for UpdateAction<T>
UpdateAction_from_option(o) ==
    IF o.some THEN UpdateAction_Some(o.v) ELSE UpdateAction_None

\* impl From<String> for UpdateAction<String>
UpdateAction_from_string(value) ==
    IF value = "" THEN UpdateAction_Null ELSE UpdateAction_Some(value)

\* impl Display for UpdateCols: cols is a sequence of <<column, action>>
UpdateCols_fmt(cols) ==
    LET kept == SelectSeq(cols, LAMBDA c : ~is_none(c[2]))
    IN  Join([i \in 1..Len(kept) |-> to_statment(kept[i][2], kept[i][1])], ", ")

\* A push that did not look at the value's presence
push_pairs_always(pairs, key, value) ==
    Append(pairs, <<key, IF value.some THEN value.v ELSE "">>)

\* KeyValuePairs::push_pairs_if_some
push_pairs_if_some(pairs, key, value) ==
    IF value.some THEN Append(pairs, <<key, value.v>>) ELSE pairs

\* AddQuery::get_key_value_strings
get_key_value_strings(pairs) ==
    <<Join([i \in 1..Len(pairs) |-> <<pairs[i][1]>>], ", "),
      Join([i \in 1..Len(pairs) |-> <<quote_string(pairs[i][2])>>], ", ")>>

\* AddQuery::build_query_string
AddQuery_build_query_string(table, pairs) ==
    LET kv == get_key_value_strings(pairs)
    IN  <<"INSERT INTO ", table, "(">> \o kv[1] \o <<") VALUES(">> \o kv[2]
        \o <<")", ";">>

\* A deletion that did not look at its condition
delete_without_condition(table, condition) == <<"DELETE FROM ", table, ";">>

\* UpdateQuery::build_query_string
UpdateQuery_build_query_string(table, update_cols, condition) ==
    LET query_string == <<"UPDATE ", table, " SET ">> \o UpdateCols_fmt(update_cols)
    IN  IF condition.some
        THEN query_string \o <<" WHERE ">> \o condition.v \o <<";">>
        ELSE query_string \o <<";">>

\* DeleteQuery::build_query_string
DeleteQuery_build_query_string(table, condition) ==
    LET query_string == <<"DELETE FROM ", table>>
    IN  IF condition.some
        THEN query_string \o <<" WHERE ">> \o condition.v \o <<";">>
        ELSE query_string \o <<";">>

\* SelectQuery::append_filters, the defaults of the query order
order_by_or_default(filters) ==
    IF filters.order_by.some THEN filters.order_by.v ELSE filters.order_by_default

\* A direction that did not look at the column
always_asc(order_by) == "Asc"

default_order_dir(order_by) == IF order_by = "Priority" THEN "Desc" ELSE "Asc"

order_clause(order_by, order_dir) ==
    <<" ORDER BY ", OrderBy_fmt(order_by), " ",
      OrderDir_fmt(IF order_dir.some THEN order_dir.v ELSE default_order_dir(order_by))>>

\* The row cap SelectQuery::append_filters applies when none is given.
DefaultLimit == 10

\* A cap that did not look at the caller's
always_default_limit(limit) == <<" LIMIT ", ToString(DefaultLimit)>>

\* SelectQuery::append_filters, the query limit
limit_clause(limit) ==
    IF ~limit.some THEN <<" LIMIT ", ToString(DefaultLimit)>>
    ELSE IF limit.v.all THEN <<>>
    ELSE <<" LIMIT ", ToString(limit.v.n)>>

\* An offset that did not look at the cap
offset_whenever_given(limit, offset) ==
    IF offset.some THEN <<" OFFSET ", ToString(offset.v)>> ELSE <<>>

\* SelectQuery::append_filters, the query offset
offset_clause(limit, offset) ==
    IF (~limit.some \/ ~limit.v.all) /\ offset.some
    THEN <<" OFFSET ", ToString(offset.v)>> ELSE <<>>

\* SelectQuery::append_filters; filters is what query_filters returns.
append_filters(query_string, filters) ==
    query_string
    \o (IF filters.condition.some THEN <<" WHERE ">> \o filters.condition.v ELSE <<>>)
    \o order_clause(order_by_or_default(filters), filters.order_dir)
    \o limit_clause(filters.limit)
    \o offset_clause(filters.limit, filters.offset)
    \o <<";">>

\* SelectQuery::build_query_string
SelectQuery_build_query_string(table, select_cols, filters) ==
    append_filters(<<"SELECT ">> \o QueryCols_fmt(select_cols) \o <<" FROM ", table>>,
                   filters)

\* Pairs that name each id under the other's column
swapped_key_value_pairs(task_id, project_id) ==
    <<<<"task_id", ToString(project_id)>>, <<"project_id", ToString(task_id)>>>>

\* AssignTaskQuery: key_value_pairs and Display
AssignTaskQuery_key_value_pairs(task_id, project_id) ==
    <<<<"task_id", ToString(task_id)>>, <<"project_id", ToString(project_id)>>>>

AssignTaskQuery_fmt(task_id, project_id) ==
    AddQuery_build_query_string(TaskAssignmentsTable,
                                AssignTaskQuery_key_value_pairs(task_id, project_id))


-----------------------------------------------------------------------------
(* lib.rs: ItemStatus and its conversions.                                 *)

ItemStatuses == {"Incomplete", "Complete", "Archived"}

\* impl Display for ItemStatus
ItemStatus_fmt(status) ==
    CASE status = "Incomplete" -> "incomplete"
      [] status = "Complete" -> "complete"
      [] status = "Archived" -> "archived"

\* impl From<ItemStatus> for u32
u32_from_ItemStatus(value) ==
    CASE value = "Incomplete" -> 0
      [] value = "Complete" -> 1
      [] value = "Archived" -> 2

\* A decoding whose fallback is the first status
from_i64_falling_back_to_first(value) ==
    CASE value = 0 -> "Incomplete"
      [] value = 1 -> "Complete"
      [] value = 3 -> "Archived"
      [] OTHER -> "Incomplete"

\* impl From<i64> for ItemStatus
ItemStatus_from_i64(value) ==
    CASE value = 0 -> "Incomplete"
      [] value = 1 -> "Complete"
      [] value = 3 -> "Archived"
      [] OTHER -> "Archived"

-----------------------------------------------------------------------------
(* queries/tasks.rs: the task statements.                                  *)

\* AddTaskQuery::key_value_pairs
AddTaskQuery_key_value_pairs(q) ==
    LET p0 == <<<<"name", q.name>>,
                <<"priority", ToString(q.priority)>>,
                <<"status", ItemStatus_fmt("Incomplete")>>>>
        p1 == push_pairs_if_some(p0, "start_time", q.start_time)
        p2 == push_pairs_if_some(p1, "end_time", q.end_time)
        p3 == push_pairs_if_some(p2, "repeat", q.repeat)
    IN  push_pairs_if_some(p3, "notes", q.notes)

\* impl Display for AddTaskQuery
AddTaskQuery_fmt(q) ==
    AddQuery_build_query_string(TasksTable, AddTaskQuery_key_value_pairs(q))

\* UpdateTaskCols::new
UpdateTaskCols_new(name, priority, status, start_time, end_time, repeat, notes) ==
    [name |-> name, priority |-> priority, status |-> status,
     start_time |-> start_time, end_time |-> end_time, repeat |-> repeat,
     notes |-> notes]

\* UpdateTaskCols::status
UpdateTaskCols_status(status) ==
    [name |-> UpdateAction_None, priority |-> UpdateAction_None,
     status |-> UpdateAction_Some(status),
     start_time |-> UpdateAction_None, end_time |-> UpdateAction_None,
     repeat |-> UpdateAction_None, notes |-> UpdateAction_None]

\* A push that did not look at the action
push_action_always(actions, action, col) == Append(actions, to_statment(action, col))

\* push_action inside UpdateTaskCols::fmt
push_action(actions, action, col) ==
    IF ~is_none(action) THEN Append(actions, to_statment(action, col)) ELSE actions

\* u64::to_string inside to_statment, for an action that carries a number
DisplayNum(a) == UpdateAction_map_from(a, [n \in Nat |-> ToString(n)])

\* impl Display for UpdateTaskCols
UpdateTaskCols_fmt(u) ==
    LET a1 == push_action(<<>>, u.name, "name")
        a2 == push_action(a1, DisplayNum(u.priority), "priority")
        a3 == push_action(a2,
                  DisplayNum(UpdateAction_map_from(u.status,
                      [s \in ItemStatuses |-> u32_from_ItemStatus(s)])),
                  "status")
        a4 == push_action(a3, u.start_time, "start_time")
        a5 == push_action(a4, u.end_time, "end_time")
        a6 == push_action(a5, u.repeat, "repeat")
        a7 == push_action(a6, u.notes, "notes")
    IN  Join(a7, ",")

\* An update statement that left its condition out
fmt_without_condition(update, condition) ==
    <<"UPDATE ", TasksTable, " SET ">> \o UpdateTaskCols_fmt(update) \o <<";", ";">>

\* impl Display for UpdateTaskQuery
UpdateTaskQuery_fmt(update, condition) ==
    LET q0 == <<"UPDATE ", TasksTable, " SET ">> \o UpdateTaskCols_fmt(update)
        q1 == IF condition.some THEN q0 \o <<" WHERE ">> \o condition.v ELSE q0
        query_string == q1 \o <<";">>
    IN  query_string \o <<";">>

\* A task deletion rendered on the projects table
delete_from_projects(condition) ==
    DeleteQuery_build_query_string(ProjectsTable, condition)

\* impl Display for DeleteTaskQuery
DeleteTaskQuery_fmt(condition) ==
    DeleteQuery_build_query_string(TasksTable, condition)

\* SelectTasksQuery::query_filters
SelectTasksQuery_query_filters(q) ==
    [condition |-> q.condition, order_by |-> q.order_by,
     order_by_default |-> "Priority", order_dir |-> q.order_dir,
     limit |-> q.limit, offset |-> q.offset]

\* A select rendered as the deletion of what it should read
fmt_as_delete(q) == DeleteQuery_build_query_string(TasksTable, q.condition)

\* impl Display for SelectTasksQuery
SelectTasksQuery_fmt(q) ==
    SelectQuery_build_query_string(TasksTable, q.cols,
                                   SelectTasksQuery_query_filters(q))

-----------------------------------------------------------------------------
(* queries/projects.rs: the project statements.                            *)

\* AddProjectQuery::key_value_pairs
AddProjectQuery_key_value_pairs(q) ==
    LET p0 == <<<<"name", q.name>>>>
        p1 == push_pairs_if_some(p0, "start_time", q.start_time)
        p2 == push_pairs_if_some(p1, "end_time", q.end_time)
    IN  push_pairs_if_some(p2, "notes", q.notes)

\* impl Display for AddProjectQuery
AddProjectQuery_fmt(q) ==
    AddQuery_build_query_string(ProjectsTable, AddProjectQuery_key_value_pairs(q))

\* impl Display for DeleteProjectQuery
DeleteProjectQuery_fmt(condition) ==
    DeleteQuery_build_query_string(ProjectsTable, condition)

\* SelectProjectsQuery::query_filters
SelectProjectsQuery_query_filters(q) ==
    [condition |-> q.condition, order_by |-> q.order_by,
     order_by_default |-> "Name", order_dir |-> q.order_dir,
     limit |-> q.limit, offset |-> q.offset]

\* impl Display for SelectProjectsQuery
SelectProjectsQuery_fmt(q) ==
    SelectQuery_build_query_string(ProjectsTable, q.cols,
                                   SelectProjectsQuery_query_filters(q))


-----------------------------------------------------------------------------
(* lib.rs: the entities and the calls Server makes on its connection.      *)

\* struct Task, every field optional
Task(id, name, priority, status, start_time, end_time, repeat, notes) ==
    [id |-> id, name |-> name, priority |-> priority, status |-> status,
     start_time |-> start_time, end_time |-> end_time, repeat |-> repeat,
     notes |-> notes, projects |-> None]

\* Row::get::<&str, i64>(col).ok()
get_i64(row, col) ==
    IF col \in DOMAIN row /\ row[col].t = "int" THEN Some(row[col].v) ELSE None

\* Row::get::<&str, u64>(col).ok()
get_u64(row, col) ==
    IF col \in DOMAIN row /\ row[col].t = "int" /\ row[col].v >= 0
    THEN Some(row[col].v) ELSE None

\* Row::get::<&str, String>(col).ok()
get_String(row, col) ==
    IF col \in DOMAIN row /\ row[col].t = "text" THEN Some(row[col].v) ELSE None

\* A row closure that fills a field it could not read with a default
TaskFromRow_or_default(row) ==
    LET int(col) == IF get_i64(row, col).some THEN get_i64(row, col) ELSE Some(0)
        str(col) == IF get_String(row, col).some THEN get_String(row, col)
                    ELSE Some("")
    IN  Task(int("id"), str("name"), int("priority"),
             Some(ItemStatus_from_i64(int("status").v)), str("start_time"),
             str("end_time"), str("repeat"), str("notes"))

\* The row closure of Server::execute_select_tasks
TaskFromRow(row) ==
    LET code == get_i64(row, "status")
        status == IF code.some THEN Some(ItemStatus_from_i64(code.v)) ELSE None
    IN  Task(get_i64(row, "id"), get_String(row, "name"), get_u64(row, "priority"),
             status, get_String(row, "start_time"), get_String(row, "end_time"),
             get_String(row, "repeat"), get_String(row, "notes"))

\* The connection the Server holds
Conn == Store(tables, sqlite_sequence, foreign_keys)

\* What an operation hands back to its caller, with the statement it issued:
\* the new row id (last_insert_rowid), the rows changed (changes), the entities.
Res(op, args, stmt, r, rows) ==
    [op |-> op, args |-> args, ok |-> r.ok, stmt |-> stmt,
     id |-> IF r.ok THEN r.rowid ELSE 0,
     changes |-> IF r.ok THEN r.changes ELSE 0,
     rows |-> rows]

\* The number of mutating operations a behaviour performs.
MaxSteps == 2

CanMutate == steps < MaxSteps

\* A mutating call: the store moves to what the engine made of the statement.
Mutate(r) ==
    /\ steps' = steps + 1
    /\ tables' = r.tables
    /\ sqlite_sequence' = r.seq
    /\ UNCHANGED foreign_keys

\* The operations that only read the store: the selects and the row count.
SelectOps ==
    {"select_tasks", "select_project", "Server::select_tasks",
     "Server::select_tasks_condition"}

ReadOps == SelectOps \cup {"get_table_row_count"}

\* A behaviour is followed up to the first result it reads: the result goes
\* back to the caller, and every store a longer behaviour reaches, and every
\* call on it, is reached by one that left the earlier reads out.
FirstRead == res.op \notin ReadOps

\* A reading call: the store is what the engine made of the statement.
Read(r) ==
    /\ tables' = r.tables
    /\ sqlite_sequence' = r.seq
    /\ UNCHANGED <<foreign_keys, steps>>

\* The closure and the collect of Server::execute_select_tasks
TaskRows(r) ==
    IF r.ok THEN [i \in 1..Len(r.rows) |-> TaskFromRow(r.rows[i])] ELSE <<>>

\* enum OrderBy of lib.rs and its Display
lib_OrderBys == {"Id", "Name", "Priority", "StartDate", "EndDate"}

lib_OrderBy_fmt(o) ==
    CASE o = "Id" -> "id"
      [] o = "Name" -> "name"
      [] o = "Priority" -> "priority"
      [] o = "StartDate" -> "start_date"
      [] o = "EndDate" -> "end_date"

\* impl Display for SelectTasksQuery of lib.rs; conditions is an optional
\* sequence of <<condition, optional operator>>.
lib_SelectTasksQuery_fmt(cols, conditions, order_by, order_dir) ==
    LET q0 == <<"SELECT ">> \o QueryCols_fmt(cols) \o <<" FROM ", TasksTable>>
        cs == conditions.v
        one(i) == QueryConditions_fmt(cs[i][1])
                  \o (IF cs[i][2].some THEN <<" ", cs[i][2].v>> ELSE <<>>)
        q1 == IF conditions.some
              THEN q0 \o Join([i \in 1..Len(cs) |-> one(i)], " ") ELSE q0
        by == IF order_by.some THEN order_by.v ELSE "Priority"
        dir == IF order_dir.some THEN order_dir.v
               ELSE IF by = "Priority" THEN "Desc" ELSE "Asc"
    IN  q1 \o <<" ORDER BY ", lib_OrderBy_fmt(by), " ", OrderDir_fmt(dir)>> \o <<";">>

\* Server::select_tasks of lib.rs, with the Server::execute_select_tasks it calls
Server_select_tasks(cols, order_by, order_dir) ==
    /\ FirstRead
    /\ \E r \in {Execute(lib_SelectTasksQuery_fmt(cols, None, order_by, order_dir),
                         Conn)} :
           /\ Read(r)
           /\ res' = Res("Server::select_tasks",
                      [cols |-> cols, order_by |-> order_by, order_dir |-> order_dir],
                      lib_SelectTasksQuery_fmt(cols, None, order_by, order_dir),
                      r, TaskRows(r))

\* Server::select_tasks_condition of lib.rs
Server_select_tasks_condition(cols, conditions, order_by, order_dir) ==
    /\ FirstRead
    /\ \E r \in {Execute(lib_SelectTasksQuery_fmt(cols, Some(conditions), order_by,
                                                  order_dir), Conn)} :
           /\ Read(r)
           /\ res' = Res("Server::select_tasks_condition",
                      [cols |-> cols, conditions |-> conditions,
                       order_by |-> order_by, order_dir |-> order_dir],
                      lib_SelectTasksQuery_fmt(cols, Some(conditions), order_by,
                                               order_dir),
                      r, TaskRows(r))

\* The statement Server::add_task of lib.rs renders.  The map's iteration
\* order is unspecified; the columns and the values stay paired, so the order
\* written here is one of them.
Server_add_task_sql(args) ==
    LET m0 == <<<<"name", args.name>>,
                <<"priority", ToString(args.priority)>>,
                <<"status", ToString(u32_from_ItemStatus(args.status))>>>>
        m1 == push_pairs_if_some(m0, "start_time", args.start_time)
        m2 == push_pairs_if_some(m1, "end_time", args.end_time)
        m3 == push_pairs_if_some(m2, "repeat", args.repeat)
        map == push_pairs_if_some(m3, "repeate", args.notes)
        cols == Join([i \in 1..Len(map) |-> <<map[i][1]>>], ", ")
        vals == Join([i \in 1..Len(map) |-> <<"'" \o trim(map[i][2]) \o "'">>], ", ")
    IN  <<"INSERT INTO ", "tasks", "(">> \o cols \o <<") VALUES(">> \o vals \o <<")">>

\* Server::add_task of lib.rs
Server_add_task(args) ==
    /\ CanMutate
    /\ \E r \in {Execute(Server_add_task_sql(args), Conn)} :
           /\ Mutate(r)
           /\ res' = Res("Server::add_task", args, Server_add_task_sql(args), r, <<>>)

Server_delete_task_sql(query) ==
    <<"DELETE FROM ", "tasks", " WHERE ">> \o QueryConditions_fmt(query) \o <<";">>

\* Server::delete_task of lib.rs
Server_delete_task(query) ==
    /\ CanMutate
    /\ \E r \in {Execute(Server_delete_task_sql(query), Conn)} :
           /\ Mutate(r)
           /\ res' = Res("Server::delete_task", [query |-> query],
                         Server_delete_task_sql(query), r, <<>>)

-----------------------------------------------------------------------------
(* The facade the command handlers call (app.select_tasks with six         *)
(* arguments, app.update_task, app.delete_task, the project and the       *)
(* assignment operations).  Each renders the statement with the builder of *)
(* queries.rs and runs it on the connection as the Server of lib.rs does.  *)

\* struct Project, every field optional
Project(id, name, start_time, end_time, notes) ==
    [id |-> id, name |-> name, start_time |-> start_time, end_time |-> end_time,
     notes |-> notes, tasks |-> None]

ProjectFromRow(row) ==
    Project(get_i64(row, "id"), get_String(row, "name"),
            get_String(row, "start_time"), get_String(row, "end_time"),
            get_String(row, "notes"))

SelectArgs(cols, condition, order_by, order_dir, limit, offset) ==
    [cols |-> cols, condition |-> condition, order_by |-> order_by,
     order_dir |-> order_dir, limit |-> limit, offset |-> offset]

ProjectRows(r) ==
    IF r.ok THEN [i \in 1..Len(r.rows) |-> ProjectFromRow(r.rows[i])] ELSE <<>>

\* app.select_tasks(cols, condition, order_by, order_dir, limit, offset)
app_select_tasks(q) ==
    /\ FirstRead
    /\ \E r \in {Execute(SelectTasksQuery_fmt(q), Conn)} :
           /\ Read(r)
           /\ res' = Res("select_tasks", q, SelectTasksQuery_fmt(q), r, TaskRows(r))

\* app.select_project(cols, condition, order_by, order_dir, limit, offset)
app_select_project(q) ==
    /\ FirstRead
    /\ \E r \in {Execute(SelectProjectsQuery_fmt(q), Conn)} :
           /\ Read(r)
           /\ res' = Res("select_project", q, SelectProjectsQuery_fmt(q), r,
                      ProjectRows(r))

\* app.get_table_row_count(table)
app_get_table_row_count(table) ==
    /\ FirstRead
    /\ \E r \in {Execute(<<"SELECT ", "COUNT(*)", " FROM ", table, ";">>, Conn)} :
           /\ Read(r)
           /\ res' = Res("get_table_row_count", [table |-> table],
                         <<"SELECT ", "COUNT(*)", " FROM ", table, ";">>, r,
                         IF r.ok THEN <<r.rows[1].v>> ELSE <<>>)

\* app.add_task rendered by AddTaskQuery
app_add_task(q) ==
    /\ CanMutate
    /\ \E r \in {Execute(AddTaskQuery_fmt(q), Conn)} :
           /\ Mutate(r)
           /\ res' = Res("add_task", q, AddTaskQuery_fmt(q), r, <<>>)

\* app.add_project(AddProjectArgs)
app_add_project(q) ==
    /\ CanMutate
    /\ \E r \in {Execute(AddProjectQuery_fmt(q), Conn)} :
           /\ Mutate(r)
           /\ res' = Res("add_project", q, AddProjectQuery_fmt(q), r, <<>>)

\* The statement of app.update_task(condition, UpdateTaskArgs)
update_task_sql(condition, args) ==
    UpdateTaskQuery_fmt(
        UpdateTaskCols_new(args.name, args.priority, args.status, args.start_time,
                           args.end_time, args.repeat, args.notes),
        condition)

\* app.update_task(condition, UpdateTaskArgs)
app_update_task(condition, args) ==
    /\ CanMutate
    /\ \E r \in {Execute(update_task_sql(condition, args), Conn)} :
           /\ Mutate(r)
           /\ res' = Res("update_task", [condition |-> condition, update |-> args],
                         update_task_sql(condition, args), r, <<>>)

\* The statement of app.update_project(condition, name, start_time, end_time, notes)
update_project_sql(condition, name, start_time, end_time, notes) ==
    UpdateQuery_build_query_string(
        ProjectsTable,
        <<<<"name", name>>, <<"start_time", start_time>>,
          <<"end_time", end_time>>, <<"notes", notes>>>>,
        condition)

\* app.update_project(condition, name, start_time, end_time, notes)
app_update_project(condition, name, start_time, end_time, notes) ==
    /\ CanMutate
    /\ \E r \in {Execute(update_project_sql(condition, name, start_time, end_time,
                                            notes), Conn)} :
           /\ Mutate(r)
           /\ res' = Res("update_project",
                         [condition |-> condition,
                          update |-> [name |-> name, start_time |-> start_time,
                                      end_time |-> end_time, notes |-> notes]],
                         update_project_sql(condition, name, start_time, end_time,
                                            notes),
                         r, <<>>)

\* app.delete_task(condition)
app_delete_task(condition) ==
    /\ CanMutate
    /\ \E r \in {Execute(DeleteTaskQuery_fmt(condition), Conn)} :
           /\ Mutate(r)
           /\ res' = Res("delete_task", [condition |-> condition],
                         DeleteTaskQuery_fmt(condition), r, <<>>)

\* app.delete_project(condition)
app_delete_project(condition) ==
    /\ CanMutate
    /\ \E r \in {Execute(DeleteProjectQuery_fmt(condition), Conn)} :
           /\ Mutate(r)
           /\ res' = Res("delete_project", [condition |-> condition],
                         DeleteProjectQuery_fmt(condition), r, <<>>)

\* app.assign_task(task_id, project_id)
app_assign_task(task_id, project_id) ==
    /\ CanMutate
    /\ \E r \in {Execute(AssignTaskQuery_fmt(task_id, project_id), Conn)} :
           /\ Mutate(r)
           /\ res' = Res("assign_task",
                         [task_id |-> task_id, project_id |-> project_id],
                         AssignTaskQuery_fmt(task_id, project_id), r, <<>>)

-----------------------------------------------------------------------------
(* Server::open and Server::init: the store a command starts from.         *)

EmptyTables == [tasks |-> <<>>, projects |-> <<>>, task_assignments |-> <<>>]

ZeroSeq == [tasks |-> 0, projects |-> 0, task_assignments |-> 0]

\* A connection left with the pragma's default
foreign_keys_off == FALSE

\* PRAGMA foreign_keys = ON, the first statement of Server::init
pragma_foreign_keys == TRUE

\* The store after Server::open and Server::init on a new file
Opened == Store(EmptyTables, ZeroSeq, pragma_foreign_keys)

NoRes ==
    [op |-> "open", args |-> <<>>, ok |-> TRUE, stmt |-> <<>>, id |-> 0,
     changes |-> 0, rows |-> <<>>]

AddTaskArgs(name, priority, status, start_time, end_time, repeat, notes) ==
    [name |-> name, priority |-> priority, status |-> status,
     start_time |-> start_time, end_time |-> end_time, repeat |-> repeat,
     notes |-> notes]

AddProjectArgs(name, start_time, end_time, notes) ==
    [name |-> name, start_time |-> start_time, end_time |-> end_time,
     notes |-> notes]

\* The store a statement leaves behind
StoreOf(r, fk) == Store(r.tables, r.seq, fk)

After(stmt, st) == StoreOf(Execute(stmt, st), st.fk)

\* The number of tasks an existing database file holds when it is opened.
MaxRows == 11

\* Families of task lists: the priority of the i-th task added.
Patterns == {"cycle", "equal", "rising", "text"}

PatternPriority(pat, i) ==
    CASE pat = "cycle" -> i % 3
      [] pat = "equal" -> 2
      [] pat = "rising" -> i
      [] pat = "text" -> (2 * i) % 5

\* The i-th add_task call of a family; the "text" family goes through the
\* statement of AddTaskQuery, the others through Server::add_task.
PatternStatement(pat, i) ==
    LET name == IF i % 2 = 1 THEN "Buy milk" ELSE "Walk dog"
        start == IF i % 3 = 0 THEN Some("2024-01-01") ELSE None
        status == IF i % 2 = 1 THEN "Incomplete" ELSE "Complete"
        a == AddTaskArgs(name, PatternPriority(pat, i), status, start, None,
                         None, None)
    IN  IF pat = "text" THEN AddTaskQuery_fmt(a) ELSE Server_add_task_sql(a)

\* The store after the first n add_task calls of a family
RECURSIVE Populated(_, _)
Populated(pat, n) ==
    IF n = 0
    THEN After(AddProjectQuery_fmt(AddProjectArgs("home", Some("2025-01-01"), None, None)),
               After(AddProjectQuery_fmt(AddProjectArgs("work", Some("2024-01-01"),
                                                        None, Some("memo"))),
                     Opened))
    ELSE CHOOSE st \in {After(PatternStatement(pat, n), prev) :
                            prev \in {Populated(pat, n - 1)}} : TRUE


-----------------------------------------------------------------------------
(* Selecting from an existing database.                                    *)

OptOrderBy == {None} \cup {Some(o) : o \in OrderBys}

lib_OptOrderBy == {None} \cup {Some(o) : o \in lib_OrderBys}

OptOrderDir == {None} \cup {Some(d) : d \in OrderDirs}

OptLimit == {None, Some(RowLimit_All), Some(RowLimit_Limit(2))}

OptOffset == {None, Some(1)}

TaskConditions == {None, Some(QueryConditions_fmt(Equal("priority", "2")))}

ProjectConditions == {None, Some(QueryConditions_fmt(Equal("name", "'work'")))}

InitSelect ==
    \E pat \in Patterns, n \in 0..MaxRows :
        LET st == Populated(pat, n)
        IN  /\ tables = st.tables
            /\ sqlite_sequence = st.seq
            /\ foreign_keys = st.fk
            /\ steps = 0
            /\ res = NoRes

SelectTasks ==
    \E c \in TaskConditions, ob \in OptOrderBy, od \in OptOrderDir,
       l \in OptLimit, off \in OptOffset :
        app_select_tasks(SelectArgs(QueryCols_All, c, ob, od, l, off))

SelectProject ==
    \E c \in ProjectConditions, ob \in OptOrderBy, od \in OptOrderDir,
       l \in OptLimit, off \in OptOffset :
        app_select_project(SelectArgs(QueryCols_All, c, ob, od, l, off))

LibSelectTasks ==
    \E ob \in lib_OptOrderBy, od \in OptOrderDir :
        Server_select_tasks(QueryCols_All, ob, od)

LibSelectTasksCondition ==
    \E ob \in lib_OptOrderBy, od \in OptOrderDir :
        Server_select_tasks_condition(QueryCols_All,
                                      <<<<Equal("priority", "2"), None>>>>, ob, od)

NextSelect ==
    \/ SelectTasks
    \/ SelectProject
    \/ LibSelectTasks
    \/ LibSelectTasksCondition

SpecSelect == InitSelect /\ [][NextSelect]_vars


-----------------------------------------------------------------------------
(* Properties of the selects.                                              *)

Min(a, b) == IF a < b THEN a ELSE b

\* A task select that names no order column, direction, row cap or offset
Unordered ==
    \/ /\ res.op = "select_tasks"
       /\ res.args.order_by = None /\ res.args.order_dir = None
       /\ res.args.limit = None /\ res.args.offset = None
    \/ /\ res.op = "Server::select_tasks"
       /\ res.args.order_by = None /\ res.args.order_dir = None

ReturnedIds == {res.rows[i].id.v : i \in 1..Len(res.rows)}

\* C1: a task select issued with no order column, no order direction, no row
\* cap and no offset returns at most 10 rows, in non-increasing priority
\* order; without a predicate they are the highest-priority rows of the table.
C1_DefaultSelectTopTen ==
    Unordered =>
        /\ res.ok
        /\ Len(res.rows) <= 10
        /\ \A i, j \in 1..Len(res.rows) :
               i < j => res.rows[i].priority.v >= res.rows[j].priority.v
        /\ (res.op = "Server::select_tasks" \/ res.args.condition = None) =>
               /\ Len(res.rows) = Min(10, Cardinality(DOMAIN tables.tasks))
               /\ \A id \in DOMAIN tables.tasks \ ReturnedIds :
                      \A i \in 1..Len(res.rows) :
                          tables.tasks[id].priority.v <= res.rows[i].priority.v

\* The rows the predicate of the select in res matches: the selects of this
\* specification ask for priority = 2 of tasks and name = 'work' of projects.
ExpectedIds ==
    IF res.op = "select_tasks"
    THEN {id \in DOMAIN tables.tasks :
             res.args.condition.some => tables.tasks[id].priority = IntCell(2)}
    ELSE {id \in DOMAIN tables.projects :
             res.args.condition.some => tables.projects[id].name = TextCell("work")}

\* The table of the select in res has the column it is ordered by: projects
\* have no priority.
OrderColumnExists ==
    res.op = "select_project" => res.args.order_by # Some("Priority")

ColumnName(o) ==
    CASE o = "Id" -> "id"
      [] o = "Name" -> "name"
      [] o = "Priority" -> "priority"
      [] o = "StartDate" -> "start_date"
      [] o = "EndDate" -> "end_date"

\* The order column and direction the select in res should render
ResolvedColumn ==
    IF res.args.order_by.some THEN res.args.order_by.v
    ELSE IF res.op = "select_project" THEN "Name" ELSE "Priority"

ResolvedDirection ==
    IF res.args.order_dir.some THEN (IF res.args.order_dir.v = "Asc" THEN "ASC" ELSE "DESC")
    ELSE IF ResolvedColumn = "Priority" THEN "DESC" ELSE "ASC"

\* C10: the ORDER BY clause of every select names the caller's column, else
\* priority for tasks and name for projects, then the caller's direction, else
\* DESC when the resolved column is priority and ASC otherwise.
C10_OrderByDefaults ==
    res.op \in SelectOps =>
        \E i \in 1..(Len(res.stmt) - 3) :
            /\ res.stmt[i] = " ORDER BY "
            /\ res.stmt[i + 1] = ColumnName(ResolvedColumn)
            /\ res.stmt[i + 2] = " "
            /\ res.stmt[i + 3] = ResolvedDirection
            /\ \A j \in 1..Len(res.stmt) : res.stmt[j] = " ORDER BY " => j = i

\* A task select left to the defaults, which returned rows
C10_Witness ==
    /\ res.op = "select_tasks"
    /\ res.args.order_by = None
    /\ res.args.order_dir = None
    /\ res.ok
    /\ Len(res.rows) > 1


\* The cap and the offset in effect for the select in res
CapOf == IF res.args.limit.some THEN res.args.limit.v.n ELSE 10

OffsetOf == IF res.args.offset.some THEN res.args.offset.v ELSE 0

Monus(a, b) == IF a > b THEN a - b ELSE 0

\* The cell the select in res orders the row id of its table by
SortCell(id) ==
    (IF res.op = "select_tasks" THEN tables.tasks ELSE tables.projects)
        [id][ColumnName(ResolvedColumn)]

\* Row a comes strictly before row b in the order of the select in res.
StrictlyBefore(a, b) ==
    IF ResolvedDirection = "ASC" THEN CellLess(SortCell(a), SortCell(b))
    ELSE CellLess(SortCell(b), SortCell(a))

\* The matching rows the select in res did not return
LeftOut == ExpectedIds \ ReturnedIds

\* The rows of res are rows o+1 .. o+cap of the matching rows in order: they
\* are in order, o of the rows left out may stand before the first and the
\* others may stand after the last.
IsPage ==
    LET n == Len(res.rows)
        o == Min(OffsetOf, Cardinality(ExpectedIds))
    IN  /\ n = Min(CapOf, Monus(Cardinality(ExpectedIds), OffsetOf))
        /\ Cardinality(ReturnedIds) = n
        /\ ReturnedIds \subseteq ExpectedIds
        /\ \A i, j \in 1..n :
               i < j => ~StrictlyBefore(res.rows[j].id.v, res.rows[i].id.v)
        /\ n > 0 =>
               LET first == res.rows[1].id.v
                   last == res.rows[n].id.v
               IN  /\ Cardinality({x \in LeftOut : StrictlyBefore(x, first)}) <= o
                   /\ Cardinality({x \in LeftOut : ~StrictlyBefore(first, x)}) >= o
                   /\ \A x \in LeftOut :
                          ~StrictlyBefore(first, x) \/ ~StrictlyBefore(x, last)

\* The fragments i and i+1 of the statement in res are a clause and its number.
Clause(i, word, n) ==
    /\ i + 1 \in 1..Len(res.stmt)
    /\ res.stmt[i] = word
    /\ res.stmt[i + 1] = ToString(n)

Clauses(word) == {i \in 1..Len(res.stmt) : res.stmt[i] = word}

-----------------------------------------------------------------------------
(* Updating the tasks of an existing database and reading them back.       *)

\* struct UpdateTaskArgs: one action per updatable column
UpdateTaskArgs(name, priority, status, start_time, end_time, repeat, notes) ==
    [name |-> name, priority |-> priority, status |-> status,
     start_time |-> start_time, end_time |-> end_time, repeat |-> repeat,
     notes |-> notes]

TaskUpdateCols ==
    {"name", "priority", "status", "start_time", "end_time", "repeat", "notes"}

NullableCols == {"start_time", "end_time", "repeat", "notes"}

NoUpdate ==
    UpdateTaskArgs(UpdateAction_None, UpdateAction_None, UpdateAction_None,
                   UpdateAction_None, UpdateAction_None, UpdateAction_None,
                   UpdateAction_None)

\* The updates the callers ask for: each nullable column cleared and set, a
\* text with an apostrophe, the required columns, the status, and nothing.
TaskUpdates ==
    {[NoUpdate EXCEPT ![c] = a] :
        c \in NullableCols, a \in {UpdateAction_Null, UpdateAction_Some("2025-01-01")}}
    \cup {[NoUpdate EXCEPT !.notes = UpdateAction_Some(Apostrophed)],
          [NoUpdate EXCEPT !.name = UpdateAction_Some("Walk dog"),
                           !.priority = UpdateAction_Some(5)],
          [NoUpdate EXCEPT !.status = UpdateAction_Some("Complete"),
                           !.notes = UpdateAction_Some("memo")],
          NoUpdate}

\* The predicate id = k, as QueryConditions::Equal renders it
IdIs(k) == QueryConditions_fmt(Equal("id", ToString(k)))

\* The tasks the callers of this specification address
UpdatedIds == {1, 3}

UpdateConditions == {None} \cup {Some(IdIs(k)) : k \in UpdatedIds}

\* The database holds three tasks, the third with a start time, or none.
Init ==
    \E n \in {0, 3} :
        LET st == Populated("cycle", n)
        IN  /\ tables = st.tables
            /\ sqlite_sequence = st.seq
            /\ foreign_keys = st.fk
            /\ steps = 0
            /\ res = NoRes

UpdateTask ==
    \E c \in UpdateConditions, u \in TaskUpdates : app_update_task(c, u)

SelectTaskById ==
    \E k \in UpdatedIds :
        app_select_tasks(SelectArgs(QueryCols_All, Some(IdIs(k)), None, None, None,
                                    None))

Next ==
    \/ UpdateTask
    \/ SelectTaskById

Spec == Init /\ [][Next]_vars


\* The task the select in res' returned, when it returned one
Reselected == res'.rows[1]

\* C6: after update_task scoped to an existing task id, a re-select of that
\* task yields every nullable column whose action was Null absent, and every
\* nullable column whose action was Set(v) present and equal to v, whatever
\* v is and whatever the column held before.
C6_TriStateRoundTrip ==
    [][(/\ res.op = "update_task"
        /\ res'.op = "select_tasks"
        /\ \E k \in DOMAIN tables.tasks :
               /\ res.args.condition = Some(IdIs(k))
               /\ res'.args.condition = Some(IdIs(k)))
       => /\ res'.ok
          /\ Len(res'.rows) = 1
          /\ \A c \in NullableCols :
                 /\ res.args.update[c].kind = "Null" => Reselected[c] = None
                 /\ res.args.update[c].kind = "Some" =>
                        Reselected[c] = Some(res.args.update[c].v)]_vars

\* The rows of tasks an update's predicate selects
Addressed(condition) ==
    IF condition.some
    THEN {k \in DOMAIN tables.tasks : condition.v = IdIs(k)}
    ELSE DOMAIN tables.tasks

\* C7: an update of tasks changes only rows that satisfy its predicate (every
\* row when the predicate is absent) and, within them, only columns whose
\* action is Set or Null: a column whose action is Untouched keeps its value,
\* no row's identifier changes, no row appears or disappears, and the rows of
\* projects and task_assignments are unchanged.
C7_UpdateFrame ==
    [][res'.op = "update_task"
       => /\ DOMAIN tables'.tasks = DOMAIN tables.tasks
          /\ \A k \in DOMAIN tables.tasks :
                 /\ tables'.tasks[k].id = tables.tasks[k].id
                 /\ k \notin Addressed(res'.args.condition) =>
                        tables'.tasks[k] = tables.tasks[k]
                 /\ \A c \in TaskUpdateCols :
                        is_none(res'.args.update[c]) =>
                            tables'.tasks[k][c] = tables.tasks[k][c]
          /\ tables'.projects = tables.projects
          /\ tables'.task_assignments = tables.task_assignments]_vars

\* An update scoped to one of three tasks changed it and no other, and left
\* the start time it did not mention in place.
C7_Witness ==
    /\ res.op = "update_task"
    /\ res.ok
    /\ res.changes = 1
    /\ res.args.condition = Some(IdIs(3))
    /\ is_none(res.args.update.start_time)
    /\ res.args.update.notes = UpdateAction_Some("memo")
    /\ tables.tasks[3].notes = TextCell("memo")
    /\ tables.tasks[3].start_time = TextCell("2024-01-01")
    /\ tables.tasks[1].notes = NULL

-----------------------------------------------------------------------------
(* Adding tasks and reading them back by the identifier returned.          *)

AddNames == {"Buy milk", " Buy milk ", Apostrophed}

AddPriorities == {0, 3}

\* add_task with a name, a priority and a status
TaskInputs ==
    {AddTaskArgs(n, p, s, None, None, None, None) :
        n \in AddNames, p \in AddPriorities, s \in ItemStatuses}

\* AddTaskQuery::new takes no status
BuilderInputs == {a \in TaskInputs : a.status = "Incomplete"}

AddOps == {"Server::add_task", "add_task"}

InitAdd ==
    \E n \in {0, 1} :
        LET st == Populated("cycle", n)
        IN  /\ tables = st.tables
            /\ sqlite_sequence = st.seq
            /\ foreign_keys = st.fk
            /\ steps = 0
            /\ res = NoRes

AddTask == \E a \in TaskInputs : Server_add_task(a)

AddTaskByBuilder == \E a \in BuilderInputs : app_add_task(a)

\* The caller reads back the task whose identifier the add returned.
SelectAdded ==
    /\ res.op \in AddOps
    /\ app_select_tasks(SelectArgs(QueryCols_All, Some(IdIs(res.id)), None, None,
                                   None, None))

LibSelectAdded ==
    /\ res.op \in AddOps
    /\ Server_select_tasks_condition(QueryCols_All,
                                     <<<<Equal("id", ToString(res.id)), None>>>>,
                                     None, None)

NextAdd ==
    \/ AddTask
    \/ AddTaskByBuilder
    \/ SelectAdded
    \/ LibSelectAdded

SpecAdd == InitAdd /\ [][NextAdd]_vars

\* C5: add_task with a name, a priority and a status returns an identifier,
\* and a select of all columns with the predicate id = that identifier
\* returns exactly one task, whose name, priority and status are present and
\* equal to the values added.
C5_AddSelectRoundTrip ==
    [][/\ res'.op \in AddOps => res'.ok /\ res'.id \in DOMAIN tables'.tasks
       /\ (res.op \in AddOps /\ res'.op \in ReadOps)
          => /\ res'.ok
             /\ Len(res'.rows) = 1
             /\ Reselected.id = Some(res.id)
             /\ Reselected.name = Some(res.args.name)
             /\ Reselected.priority = Some(res.args.priority)
             /\ Reselected.status = Some(res.args.status)]_vars


-----------------------------------------------------------------------------
(* Assigning tasks to projects, and deleting tasks.                        *)

\* The ids the callers pass: the tasks and projects of the database, and one
\* that names neither.
AssignedIds == 1..3

\* The store after the first a assignments of an existing database
Assigned(st, a) ==
    IF a = 0 THEN st
    ELSE IF a = 1 THEN After(AssignTaskQuery_fmt(1, 1), st)
    ELSE After(AssignTaskQuery_fmt(2, 1), After(AssignTaskQuery_fmt(1, 1), st))

\* The database holds two projects, and either no task or two tasks with up
\* to two assignments.
InitAssign ==
    \E n \in {0, 2}, a \in 0..2 :
        LET st == Assigned(Populated("cycle", n), IF n = 0 THEN 0 ELSE a)
        IN  /\ tables = st.tables
            /\ sqlite_sequence = st.seq
            /\ foreign_keys = st.fk
            /\ steps = 0
            /\ res = NoRes

AssignTask == \E t \in AssignedIds, p \in AssignedIds : app_assign_task(t, p)

DeleteTask == \E c \in {None, Some(IdIs(1)), Some(IdIs(2))} : app_delete_task(c)

NextAssign ==
    \/ AssignTask
    \/ DeleteTask

SpecAssign == InitAssign /\ [][NextAssign]_vars

\* The task_assignments rows of a store that pair task t with project p
PairRows(tb, t, p) ==
    {i \in DOMAIN tb.task_assignments :
        /\ tb.task_assignments[i].task_id = IntCell(t)
        /\ tb.task_assignments[i].project_id = IntCell(p)}

\* C4: delete_task with an absent predicate succeeds from every store, leaves
\* the tasks table empty, leaves no task_assignments row that references a
\* deleted task, and leaves the rows of projects as they were.
C4_DeleteAllTasks ==
    [][(res'.op = "delete_task" /\ res'.args.condition = None)
       => /\ res'.ok
          /\ res'.changes = Cardinality(DOMAIN tables.tasks)
          /\ DOMAIN tables'.tasks = {}
          /\ \A i \in DOMAIN tables'.task_assignments :
                 tables'.task_assignments[i].task_id.v \notin DOMAIN tables.tasks
          /\ tables'.projects = tables.projects]_vars

\* Two tasks went; the two assignments the database held and the one made
\* just before went with them.
C4_Witness ==
    /\ res.op = "delete_task"
    /\ res.args.condition = None
    /\ res.changes = 2
    /\ steps = 2
    /\ sqlite_sequence.task_assignments = 3
    /\ DOMAIN tables.task_assignments = {}
    /\ DOMAIN tables.projects = {1, 2}

\* C9: for an existing task t and project p every assign(t, p) succeeds and
\* adds exactly one task_assignments row for (t, p) to those already there: the
\* k-th call leaves k rows for the pair, none rejected or merged.
C9_AssignAddsARow ==
    [][res'.op = "assign_task"
       => /\ (/\ res'.args.task_id \in DOMAIN tables.tasks
              /\ res'.args.project_id \in DOMAIN tables.projects) => res'.ok
          /\ res'.ok =>
                 /\ Cardinality(PairRows(tables', res'.args.task_id,
                                         res'.args.project_id))
                    = Cardinality(PairRows(tables, res'.args.task_id,
                                           res'.args.project_id)) + 1
                 /\ Cardinality(DOMAIN tables'.task_assignments)
                    = Cardinality(DOMAIN tables.task_assignments) + 1
                 /\ \A i \in DOMAIN tables.task_assignments :
                        /\ i \in DOMAIN tables'.task_assignments
                        /\ tables'.task_assignments[i] = tables.task_assignments[i]]_vars

\* The second assign of task 1 to project 2 left two rows for the pair.
C9_Witness ==
    /\ res.op = "assign_task"
    /\ res.ok
    /\ res.args = [task_id |-> 1, project_id |-> 2]
    /\ steps = 2
    /\ Cardinality(PairRows(tables, 1, 2)) = 2


-----------------------------------------------------------------------------
(* flags.rs and commands/: the update and check commands.  A process runs  *)
(* one command on the database it opened and exits.                        *)

\* struct UpdateArgs
UpdateArgs(term, task, project, name, item_priority, start_time, end_time, notes, repeat) ==
    [term |-> term, task |-> task, project |-> project, name |-> name,
     item_priority |-> item_priority, start_time |-> start_time,
     end_time |-> end_time, repeat |-> repeat, notes |-> notes]

\* A test that found update values whatever the arguments
any_update_values(args) == TRUE

\* UpdateArgs::has_task_update_values
has_task_update_values(args) ==
    \/ args.name.some
    \/ args.item_priority.some
    \/ args.start_time.some
    \/ args.end_time.some
    \/ args.notes.some
    \/ args.repeat.some

\* UpdateArgs::has_project_update_values
has_project_update_values(args) ==
    \/ args.name.some
    \/ args.item_priority.some
    \/ args.start_time.some
    \/ args.end_time.some
    \/ args.notes.some

\* enum NullableString
NullableString_Some(s) == [null |-> FALSE, v |-> s]
NullableString_Null == [null |-> TRUE, v |-> ""]

\* The longest text spelled letter by letter
MaxTyped == 4

\* The letters of null, in both cases
TypedChars == {"n", "N", "u", "U", "l", "L"}

\* The texts of up to MaxTyped of these letters, as their letters
TypedWords == UNION {[1..n -> TypedChars] : n \in 0..MaxTyped}

\* char::to_lowercase
char_to_lowercase(c) ==
    CASE c = "N" -> "n"
      [] c = "U" -> "u"
      [] c = "L" -> "l"
      [] OTHER -> c

\* Each spelled text with its letters lowered one by one
Lowercased ==
    {<<Text(w), Text([i \in DOMAIN w |-> char_to_lowercase(w[i])])>> : w \in TypedWords}

\* str::to_lowercase on the texts typed after a TIME|NULL style flag: letter
\* by letter on the spelled texts; of the other texts only Memo holds an
\* upper-case letter
to_lowercase(s) ==
    IF \E p \in Lowercased : p[1] = s
    THEN (CHOOSE p \in Lowercased : p[1] = s)[2]
    ELSE IF s = "Memo" THEN "memo" ELSE s

\* impl FromStr for NullableString
NullableString_from_str(s) ==
    IF to_lowercase(s) = "null" THEN NullableString_Null
    ELSE NullableString_Some(to_lowercase(s))

\* nullable_into_update_action: an absent argument leaves the column alone
nullable_into_update_action(value) ==
    IF ~value.some THEN UpdateAction_None
    ELSE IF value.v.null THEN UpdateAction_Null
    ELSE UpdateAction_Some(value.v.v)

\* string_to_update_action inside commands::update_task
string_to_update_action(s) ==
    IF s = "" THEN UpdateAction_Null ELSE UpdateAction_Some("'" \o s \o "'")

\* UpdateTaskArgs::update_status
UpdateTaskArgs_update_status(status) ==
    UpdateTaskArgs(UpdateAction_None, UpdateAction_None, UpdateAction_Some(status),
                   UpdateAction_None, UpdateAction_None, UpdateAction_None,
                   UpdateAction_None)

Like(col, value) == [kind |-> "Like", col |-> col, value |-> value]

\* The select condition of prompt_task_selection and prompt_project_selection:
\* a term that parses as usize selects by id, any other by name.
select_condition(search_term) ==
    IF search_term \in NumStrings
    THEN QueryConditions_fmt(Equal("id", search_term))
    ELSE QueryConditions_fmt(Like("name", "'%" \o search_term \o "%'"))

\* prompt_task_selection: the tasks that match the term, ordered by name
prompt_task_selection(search_term, cols, st) ==
    Execute(SelectTasksQuery_fmt(
                SelectArgs(cols, Some(select_condition(search_term)), Some("Name"),
                           None, Some(RowLimit_All), None)), st)

\* prompt_project_selection: the projects that match the term
prompt_project_selection(search_term, cols, st) ==
    Execute(SelectProjectsQuery_fmt(
                SelectArgs(cols, Some(select_condition(search_term)), Some("Name"),
                           None, Some(RowLimit_All), None)), st)

\* The item the user ends with: none when nothing matches, the match when
\* there is one, any of them when the user is asked to select.
Choices(found) == IF found = <<>> THEN {0} ELSE 1..Len(found)

\* What the user types at the prompts of the update commands
Answers ==
    {[name |-> "Walk dog", priority |-> 5, start_time |-> "", end_time |-> "",
      repeat |-> "", notes |-> ""],
     [name |-> "Buy milk", priority |-> 0, start_time |-> "2025-01-01",
      end_time |-> "", repeat |-> "daily", notes |-> "memo"]}

\* The prompts are shown only when no update value came with the arguments.
AnswersWhen(prompted) == IF prompted THEN Answers ELSE {CHOOSE a \in Answers : TRUE}

\* The update values of commands::update_task
task_update_values(args, answers) ==
    IF has_task_update_values(args)
    THEN UpdateTaskArgs(UpdateAction_from_option(args.name),
                        UpdateAction_from_option(args.item_priority),
                        UpdateAction_None,
                        nullable_into_update_action(args.start_time),
                        nullable_into_update_action(args.end_time),
                        nullable_into_update_action(args.repeat),
                        nullable_into_update_action(args.notes))
    ELSE UpdateTaskArgs(UpdateAction_Some(answers.name),
                        UpdateAction_Some(answers.priority),
                        UpdateAction_None,
                        string_to_update_action(answers.start_time),
                        string_to_update_action(answers.end_time),
                        string_to_update_action(answers.repeat),
                        string_to_update_action(answers.notes))

\* The update values of commands::update_project
project_update_values(args, answers) ==
    IF has_project_update_values(args)
    THEN [name |-> UpdateAction_from_option(args.name),
          start_time |-> nullable_into_update_action(args.start_time),
          end_time |-> nullable_into_update_action(args.end_time),
          notes |-> nullable_into_update_action(args.notes)]
    ELSE [name |-> UpdateAction_Some(answers.name),
          start_time |-> UpdateAction_from_string(answers.start_time),
          end_time |-> UpdateAction_from_string(answers.end_time),
          notes |-> UpdateAction_from_string(answers.notes)]

\* main: a process handles one command
OneCommand == res.op = "open"

\* A command that returned an error before it issued a statement
Rejected(op, args) ==
    /\ UNCHANGED <<tables, sqlite_sequence, foreign_keys, steps>>
    /\ res' = [op |-> op, args |-> [args |-> args], ok |-> FALSE, stmt |-> <<>>,
               id |-> 0, changes |-> 0, rows |-> <<>>]


TaskSelectCols == QueryCols_Some(<<"id", "name", "priority", "status">>)

ProjectSelectCols == QueryCols_Some(<<"id", "name", "start_time", "end_time">>)

\* commands::update_task
commands_update_task(args, answers) ==
    /\ OneCommand
    /\ \E found \in {TaskRows(prompt_task_selection(args.term, TaskSelectCols, Conn))} :
       \E i \in Choices(found) :
           IF \/ i = 0
              \/ ~found[i].id.some
              \/ /\ ~has_task_update_values(args)
                 /\ ~(found[i].name.some /\ found[i].priority.some)
           THEN Rejected("commands::update_task", args)
           ELSE \E u \in {task_update_values(args, answers)} :
                \E r \in {Execute(update_task_sql(Some(IdIs(found[i].id.v)), u),
                                  Conn)} :
                    /\ Mutate(r)
                    /\ res' = Res("commands::update_task",
                                  [args |-> args,
                                   condition |-> Some(IdIs(found[i].id.v)),
                                   update |-> u],
                                  update_task_sql(Some(IdIs(found[i].id.v)), u),
                                  r, <<>>)

\* commands::check_task
commands_check_task(args) ==
    /\ OneCommand
    /\ \E found \in {TaskRows(prompt_task_selection(args.term, TaskSelectCols, Conn))} :
       \E i \in Choices(found) :
           IF i = 0 \/ ~found[i].id.some \/ ~found[i].name.some
           THEN Rejected("commands::check_task", args)
           ELSE \E u \in {UpdateTaskArgs_update_status(
                              IF args.incomplete THEN "Incomplete" ELSE "Complete")} :
                \E r \in {Execute(update_task_sql(Some(IdIs(found[i].id.v)), u),
                                  Conn)} :
                    /\ Mutate(r)
                    /\ res' = Res("commands::check_task",
                                  [args |-> args,
                                   condition |-> Some(IdIs(found[i].id.v)),
                                   update |-> u],
                                  update_task_sql(Some(IdIs(found[i].id.v)), u),
                                  r, <<>>)

\* commands::update_project
commands_update_project(args, answers) ==
    /\ OneCommand
    /\ \E found \in {ProjectRows(prompt_project_selection(args.term,
                                                          ProjectSelectCols, Conn))} :
       \E i \in Choices(found) :
           IF \/ i = 0
              \/ ~found[i].id.some
              \/ ~has_project_update_values(args) /\ ~found[i].name.some
           THEN Rejected("commands::update_project", args)
           ELSE \E u \in {project_update_values(args, answers)} :
                \E r \in {Execute(update_project_sql(Some(IdIs(found[i].id.v)),
                                                     u.name, u.start_time,
                                                     u.end_time, u.notes), Conn)} :
                    /\ Mutate(r)
                    /\ res' = Res("commands::update_project",
                                  [args |-> args,
                                   condition |-> Some(IdIs(found[i].id.v)),
                                   update |-> u],
                                  update_project_sql(Some(IdIs(found[i].id.v)),
                                                     u.name, u.start_time,
                                                     u.end_time, u.notes),
                                  r, <<>>)

\* handle_update of main.rs: the task command unless --project alone is given
handle_update_task(args) == args.task \/ ~args.project

\* What the user can type after each flag of the update command
OptName == {None, Some("Walk dog")}
OptPriority == {None, Some(5)}
OptStart == {None, Some(NullableString_from_str("2025-01-01"))}
OptEnd == {None, Some(NullableString_from_str("NULL"))}
OptNotes == {None, Some(NullableString_from_str("Memo"))}
OptRepeat == {None, Some(NullableString_from_str("daily"))}

\* Search terms: an id, an id no row has, and words of the names
TaskTerms == {"1", "9", "milk", "k"}
ProjectTerms == {"1", "9", "k"}

TaskUpdateArgs ==
    {UpdateArgs(t, FALSE, FALSE, n, p, s, e, m, r) :
        t \in TaskTerms, n \in OptName, p \in OptPriority, s \in OptStart,
        e \in OptEnd, m \in OptNotes, r \in OptRepeat}

ProjectUpdateArgs ==
    {UpdateArgs(t, FALSE, TRUE, n, p, s, e, m, None) :
        t \in ProjectTerms, n \in OptName, p \in OptPriority, s \in OptStart,
        e \in OptEnd, m \in OptNotes}

\* The database file the process opens: up to three tasks, two projects
InitCommand ==
    \E pat \in {"cycle", "text"}, n \in 0..3 :
        LET st == Populated(pat, n)
        IN  /\ tables = st.tables
            /\ sqlite_sequence = st.seq
            /\ foreign_keys = st.fk
            /\ steps = 0
            /\ res = NoRes

UpdateTaskCommand ==
    \E args \in TaskUpdateArgs :
        /\ handle_update_task(args)
        /\ \E answers \in AnswersWhen(~has_task_update_values(args)) :
               commands_update_task(args, answers)

UpdateProjectCommand ==
    \E args \in ProjectUpdateArgs :
        /\ ~handle_update_task(args)
        /\ \E answers \in AnswersWhen(~has_project_update_values(args)) :
               commands_update_project(args, answers)

CheckTaskCommand ==
    \E t \in TaskTerms, inc \in BOOLEAN :
        commands_check_task([term |-> t, incomplete |-> inc])

NextCommand ==
    \/ UpdateTaskCommand
    \/ UpdateProjectCommand
    \/ CheckTaskCommand

SpecCommand == InitCommand /\ [][NextCommand]_vars

\* The statement is an UPDATE whose SET is followed by no assignment
EmptyAssignment(stmt) ==
    /\ At(Tokens(stmt), 1) = "UPDATE"
    /\ At(Tokens(stmt), 3) = "SET"
    /\ At(Tokens(stmt), 4) \in {"WHERE", ";", ""}

\* Every action of an update is Untouched
AllUntouched(update) == \A c \in DOMAIN update : is_none(update[c])

\* C2: the update_task and check_task commands issue a statement only with at
\* least one column action (name, priority, status, start_time, end_time,
\* repeat, notes) that is not Untouched: no UPDATE on tasks with an empty
\* assignment list reaches the store.
C2_TaskUpdateNeverEmpty ==
    (res.op \in {"commands::update_task", "commands::check_task"} /\ res.stmt # <<>>)
    => /\ ~AllUntouched(res.args.update)
       /\ ~EmptyAssignment(res.stmt)

\* With no update value among the arguments the user was prompted, and the
\* update issued changed the task.
C2_Witness ==
    /\ res.op = "commands::update_task"
    /\ ~has_task_update_values(res.args.args)
    /\ res.stmt # <<>>
    /\ res.ok
    /\ res.changes = 1

\* C3: the update_project command issues a statement only with at least one
\* of its four column actions (name, start_time, end_time, notes) not
\* Untouched, whatever combination of name, item_priority, start_time,
\* end_time and notes the arguments carry: no UPDATE on projects with an empty
\* assignment list reaches the store.
C3_ProjectUpdateNeverEmpty ==
    (res.op = "commands::update_project" /\ res.stmt # <<>>)
    => /\ ~AllUntouched(res.args.update)
       /\ ~EmptyAssignment(res.stmt)

-----------------------------------------------------------------------------
(* The insertions the Add builders render, for every combination of        *)
(* optional fields.                                                        *)

\* AddTaskQuery::new
AddTaskQuery_new(name, priority, start_time, end_time, repeat, notes) ==
    [name |-> name, priority |-> priority, start_time |-> start_time,
     end_time |-> end_time, repeat |-> repeat, notes |-> notes]

\* AddProjectQuery::new
AddProjectQuery_new(name, start_time, end_time, notes) ==
    [name |-> name, start_time |-> start_time, end_time |-> end_time,
     notes |-> notes]

\* AssignTaskQuery::new
AssignTaskQuery_new(task_id, project_id) ==
    [task_id |-> task_id, project_id |-> project_id]

RenderNames == {"Buy milk", "Walk dog"}

OptText(s) == {None, Some(s)}

OptStartTime == {None, Some("2024-01-01"), Some("2025-01-01")}

AddTaskQueries ==
    {AddTaskQuery_new(n, p, s, e, r, m) :
        n \in RenderNames, p \in {0, 3}, s \in OptStartTime,
        e \in OptText("2025-01-01"), r \in OptText("daily"), m \in OptText("memo")}

AddProjectQueries ==
    {AddProjectQuery_new(n, s, e, m) :
        n \in RenderNames, s \in OptStartTime,
        e \in OptText("2025-01-01"), m \in OptText("memo")}

AssignTaskQueries == {AssignTaskQuery_new(t, p) : t \in 1..3, p \in 1..3}

\* A builder's to_string(): the statement goes to the caller, nothing is run.
Rendered(op, q, stmt) ==
    /\ res' = [op |-> op, args |-> q, ok |-> TRUE, stmt |-> stmt, id |-> 0,
               changes |-> 0, rows |-> <<>>]
    /\ UNCHANGED <<tables, sqlite_sequence, foreign_keys, steps>>

InitRender ==
    /\ tables = Opened.tables
    /\ sqlite_sequence = Opened.seq
    /\ foreign_keys = Opened.fk
    /\ steps = 0
    /\ res = NoRes

RenderAddTask ==
    \E q \in AddTaskQueries : Rendered("AddTaskQuery", q, AddTaskQuery_fmt(q))

RenderAddProject ==
    \E q \in AddProjectQueries : Rendered("AddProjectQuery", q, AddProjectQuery_fmt(q))

RenderAssignTask ==
    \E q \in AssignTaskQueries :
        Rendered("AssignTaskQuery", q, AssignTaskQuery_fmt(q.task_id, q.project_id))

NextRender ==
    \/ RenderAddTask
    \/ RenderAddProject
    \/ RenderAssignTask

SpecRender == InitRender /\ [][NextRender]_vars

AddBuilders == {"AddTaskQuery", "AddProjectQuery", "AssignTaskQuery"}

\* The columns an insertion must name, and those it names when a value is there
RequiredCols(op) ==
    CASE op = "AddTaskQuery" -> {"name", "priority", "status"}
      [] op = "AddProjectQuery" -> {"name"}
      [] op = "AssignTaskQuery" -> {"task_id", "project_id"}

OptionalCols(op) ==
    CASE op = "AddTaskQuery" -> {"start_time", "end_time", "repeat", "notes"}
      [] op = "AddProjectQuery" -> {"start_time", "end_time", "notes"}
      [] op = "AssignTaskQuery" -> {}

\* The literal that belongs to column c of the insertion in res: a new task
\* is incomplete.
ValueFor(c) ==
    IF c = "status" THEN "'incomplete'"
    ELSE IF c \in {"priority", "task_id", "project_id"}
         THEN "'" \o ToString(res.args[c]) \o "'"
    ELSE IF c = "name" THEN "'" \o res.args[c] \o "'"
    ELSE "'" \o res.args[c].v \o "'"

\* The statement in res read as INSERT INTO t(c1, .., cn) VALUES(v1, .., vm);
InsertShape ==
    LET ts == Tokens(res.stmt)
        close == Pos(ts, ")")
    IN  [ok |-> /\ Len(ts) >= 10
                /\ SubSeq(ts, 1, 2) = <<"INSERT", "INTO">>
                /\ At(ts, 4) = "("
                /\ close > 5
                /\ SubSeq(ts, close + 1, close + 2) = <<"VALUES", "(">>
                /\ SubSeq(ts, Len(ts) - 1, Len(ts)) = <<")", ";">>,
         cols |-> Split(SubSeq(ts, 5, close - 1), ","),
         vals |-> Split(SubSeq(ts, close + 3, Len(ts) - 2), ",")]

\* C12: the INSERT an Add builder renders names the required columns and
\* exactly the optional columns whose value is present, each once, and its
\* VALUES list is as long, the i-th value being that of the i-th column.
C12_InsertNamesPresentColumns ==
    res.op \in AddBuilders =>
        LET s == InsertShape
            n == Len(s.cols)
        IN  /\ s.ok
            /\ \A i \in 1..n : Len(s.cols[i]) = 1
            /\ {s.cols[i][1] : i \in 1..n}
                   = RequiredCols(res.op)
                     \cup {c \in OptionalCols(res.op) : res.args[c].some}
            /\ \A i, j \in 1..n : s.cols[i] = s.cols[j] => i = j
            /\ Len(s.vals) = n
            /\ \A i \in 1..n : s.vals[i] = <<ValueFor(s.cols[i][1])>>

\* A task insertion with some optional values present and others absent
C12_Witness ==
    /\ res.op = "AddTaskQuery"
    /\ res.args.start_time.some /\ ~res.args.end_time.some
    /\ ~res.args.repeat.some /\ res.args.notes.some
    /\ Len(InsertShape.cols) = 5

-----------------------------------------------------------------------------
(* The status codes: encoding a status and decoding a stored code.         *)

\* The stored codes decoded: the i64 values from -MaxCode to MaxCode.
MaxCode == 60

StatusCodes == (0 - MaxCode)..MaxCode

\* u32::from(status)
EncodeStatus ==
    \E s \in ItemStatuses :
        /\ res' = [op |-> "u32::from", args |-> s, ok |-> TRUE, stmt |-> <<>>,
                   id |-> u32_from_ItemStatus(s), changes |-> 0, rows |-> <<>>]
        /\ UNCHANGED <<tables, sqlite_sequence, foreign_keys, steps>>

\* ItemStatus::from(code)
DecodeStatus ==
    \E code \in StatusCodes :
        /\ res' = [op |-> "ItemStatus::from", args |-> code, ok |-> TRUE,
                   stmt |-> <<>>, id |-> 0, changes |-> 0,
                   rows |-> <<ItemStatus_from_i64(code)>>]
        /\ UNCHANGED <<tables, sqlite_sequence, foreign_keys, steps>>

NextStatus ==
    \/ EncodeStatus
    \/ DecodeStatus

SpecStatus == InitRender /\ [][NextStatus]_vars

\* The codes that encode a status
EncodedCodes == {u32_from_ItemStatus(s) : s \in ItemStatuses}

\* C13: every code decodes to one of Incomplete, Complete, Archived; a code
\* that encodes no status decodes to Archived; and decoding the code a status
\* was encoded to gives that status back.
C13_StatusDecodeInvertsEncode ==
    [][/\ res'.op = "ItemStatus::from" =>
              /\ res'.rows[1] \in {"Incomplete", "Complete", "Archived"}
              /\ res'.args \notin EncodedCodes => res'.rows[1] = "Archived"
       /\ (res.op = "u32::from" /\ res'.op = "ItemStatus::from"
           /\ res'.args = res.id) => res'.rows[1] = res.args]_vars

\* The code Archived is encoded to, decoded
C13_Witness ==
    /\ res.op = "ItemStatus::from"
    /\ res.args = 2
    /\ res.rows = <<"Archived">>

-----------------------------------------------------------------------------
(* Reading a database that holds tasks, projects and assignments.          *)

ReadCols == {QueryCols_All, QueryCols_Some(<<"id", "name">>)}

ReadTaskConditions ==
    {None, Some(IdIs(1)),
     Some(QueryConditions_fmt(Like("name", LikePattern("milk"))))}

ReadProjectConditions == {None, Some(IdIs(2))}

ReadTasks ==
    \E cols \in ReadCols, c \in ReadTaskConditions, ob \in OptOrderBy,
       od \in OptOrderDir, l \in OptLimit, off \in OptOffset :
        app_select_tasks(SelectArgs(cols, c, ob, od, l, off))

ReadProjects ==
    \E cols \in ReadCols, c \in ReadProjectConditions, ob \in OptOrderBy,
       od \in OptOrderDir, l \in OptLimit, off \in OptOffset :
        app_select_project(SelectArgs(cols, c, ob, od, l, off))

LibReadTasks ==
    \E cols \in ReadCols, ob \in lib_OptOrderBy, od \in OptOrderDir :
        Server_select_tasks(cols, ob, od)

LibReadTasksCondition ==
    \E cols \in ReadCols, ob \in lib_OptOrderBy, od \in OptOrderDir :
        Server_select_tasks_condition(cols, <<<<Equal("id", "1"), None>>>>, ob, od)

RowCount == \E t \in TableNames : app_get_table_row_count(t)

NextRead ==
    \/ ReadTasks
    \/ ReadProjects
    \/ LibReadTasks
    \/ LibReadTasksCondition
    \/ RowCount

SpecRead == InitAssign /\ [][NextRead]_vars

\* C14: a select, whatever its projection, predicate, ordering, cap and
\* offset, and the row count leave the rows of tasks, projects and
\* task_assignments as they were.
C14_SelectIsReadOnly ==
    [][res'.op \in ReadOps =>
          /\ tables'.tasks = tables.tasks
          /\ tables'.projects = tables.projects
          /\ tables'.task_assignments = tables.task_assignments]_vars

\* A select returned a task of a database that holds assignments
C14_Witness ==
    /\ res.op = "select_tasks"
    /\ res.ok
    /\ Len(res.rows) = 1
    /\ res.args.condition = Some(IdIs(1))
    /\ Cardinality(DOMAIN tables.tasks) = 2
    /\ Cardinality(DOMAIN tables.task_assignments) = 2

-----------------------------------------------------------------------------
(* The store under every operation of the facade: a process opens the      *)
(* database, initializes it and runs an operation; the next process finds   *)
(* the rows the last one left.                                              *)

\* A connection enforces no foreign key until the pragma is set.
default_foreign_keys == FALSE

\* Server::open: a new connection to the database file
Server_open(st) == Store(st.tables, st.seq, default_foreign_keys)

\* A table created whether or not it exists
create_table(tb, t) == <<>>

\* CREATE TABLE IF NOT EXISTS t(...)
create_table_if_not_exists(tb, t) == IF t \in DOMAIN tb THEN tb[t] ELSE <<>>

\* An initialization that created the tables and set no pragma
init_without_pragma(st) ==
    Store([tasks |-> create_table_if_not_exists(st.tables, TasksTable),
           projects |-> create_table_if_not_exists(st.tables, ProjectsTable),
           task_assignments |->
               create_table_if_not_exists(st.tables, TaskAssignmentsTable)],
          st.seq, st.fk)

\* Server::init: the pragma, then the three tables in one transaction
Server_init(st) ==
    Store([tasks |-> create_table_if_not_exists(st.tables, TasksTable),
           projects |-> create_table_if_not_exists(st.tables, ProjectsTable),
           task_assignments |->
               create_table_if_not_exists(st.tables, TaskAssignmentsTable)],
          st.seq, pragma_foreign_keys)

\* main: Server::open and app.init() on the database of the last process
OpenAndInit ==
    /\ res.op # "Server::init"
    /\ \E st \in {Server_init(Server_open(Conn))} :
           /\ tables' = st.tables
           /\ sqlite_sequence' = st.seq
           /\ foreign_keys' = st.fk
    /\ res' = [op |-> "Server::init", args |-> <<>>, ok |-> TRUE, stmt |-> <<>>,
               id |-> 0, changes |-> 0, rows |-> <<>>]
    /\ UNCHANGED steps

\* The statement of app.unassign_task(task_id, project_id)
unassign_task_sql(task_id, project_id) ==
    DeleteQuery_build_query_string(
        TaskAssignmentsTable,
        Some(QueryConditions_fmt(Equal("task_id", ToString(task_id)))
             \o <<" AND ">>
             \o QueryConditions_fmt(Equal("project_id", ToString(project_id)))))

\* app.unassign_task(task_id, project_id)
app_unassign_task(task_id, project_id) ==
    /\ CanMutate
    /\ \E r \in {Execute(unassign_task_sql(task_id, project_id), Conn)} :
           /\ Mutate(r)
           /\ res' = Res("unassign_task",
                         [task_id |-> task_id, project_id |-> project_id],
                         unassign_task_sql(task_id, project_id), r, <<>>)

\* match_single_task_and_project: the first task and the first project, by
\* name, that match the terms; an error when either term matches nothing.
match_single_task_and_project(task_term, project_term, st) ==
    LET tasks == TaskRows(prompt_task_selection(task_term,
                              QueryCols_Some(<<"id", "name">>), st))
        projects == ProjectRows(prompt_project_selection(project_term,
                                    QueryCols_Some(<<"id", "name">>), st))
    IN  IF tasks = <<>> \/ projects = <<>>
        THEN [ok |-> FALSE]
        ELSE IF ~tasks[1].id.some \/ ~tasks[1].name.some
                \/ ~projects[1].id.some \/ ~projects[1].name.some
        THEN [ok |-> FALSE]
        ELSE [ok |-> TRUE, task_id |-> tasks[1].id.v, task_name |-> tasks[1].name.v,
              project_id |-> projects[1].id.v, project_name |-> projects[1].name.v]

\* commands::assign_task: match the two terms, then app.assign_task
commands_assign_task(task_term, project_term) ==
    /\ CanMutate
    /\ \E m \in {match_single_task_and_project(task_term, project_term, Conn)} :
           IF ~m.ok
           THEN /\ UNCHANGED <<tables, sqlite_sequence, foreign_keys, steps>>
                /\ res' = [op |-> "commands::assign_task",
                           args |-> [task_term |-> task_term,
                                     project_term |-> project_term],
                           ok |-> FALSE, stmt |-> <<>>, id |-> 0, changes |-> 0,
                           rows |-> <<>>]
           ELSE \E r \in {Execute(AssignTaskQuery_fmt(m.task_id, m.project_id),
                                  Conn)} :
                    /\ Mutate(r)
                    /\ res' = Res("commands::assign_task",
                                  [task_term |-> task_term,
                                   project_term |-> project_term,
                                   task_id |-> m.task_id,
                                   project_id |-> m.project_id],
                                  AssignTaskQuery_fmt(m.task_id, m.project_id), r,
                                  <<m.task_name, m.project_name>>)

\* commands::unassign_task: match the two terms, then app.unassign_task
commands_unassign_task(task_term, project_term) ==
    /\ CanMutate
    /\ \E m \in {match_single_task_and_project(task_term, project_term, Conn)} :
           IF ~m.ok
           THEN /\ UNCHANGED <<tables, sqlite_sequence, foreign_keys, steps>>
                /\ res' = [op |-> "commands::unassign_task",
                           args |-> [task_term |-> task_term,
                                     project_term |-> project_term],
                           ok |-> FALSE, stmt |-> <<>>, id |-> 0, changes |-> 0,
                           rows |-> <<>>]
           ELSE \E r \in {Execute(unassign_task_sql(m.task_id, m.project_id),
                                  Conn)} :
                    /\ Mutate(r)
                    /\ res' = Res("commands::unassign_task",
                                  [task_term |-> task_term,
                                   project_term |-> project_term,
                                   task_id |-> m.task_id,
                                   project_id |-> m.project_id],
                                  unassign_task_sql(m.task_id, m.project_id), r,
                                  <<m.task_name, m.project_name>>)

\* The pairs the callers assign and unassign: 3 names no task and no project.
AssignPairs == {<<1, 1>>, <<1, 2>>, <<2, 2>>, <<3, 1>>, <<1, 3>>}

UnassignPairs == {<<1, 1>>, <<2, 1>>, <<3, 3>>}

StoreAddTask ==
    Server_add_task(AddTaskArgs("Buy milk", 3, "Incomplete", None, None, None, None))

StoreAddTaskByBuilder ==
    app_add_task(AddTaskArgs("Walk dog", 0, "Incomplete", None, None, None, None))

StoreAddProject ==
    \E s \in {None, Some("2025-01-01")} :
        app_add_project(AddProjectArgs("home", s, None, None))

StoreUpdateTask ==
    app_update_task(Some(IdIs(1)),
                    UpdateTaskArgs(UpdateAction_Some("Walk dog"), UpdateAction_Some(5),
                                   UpdateAction_None, UpdateAction_None,
                                   UpdateAction_None, UpdateAction_None,
                                   UpdateAction_Null))

StoreUpdateProject ==
    app_update_project(Some(IdIs(1)), UpdateAction_Some("home"), UpdateAction_None,
                       UpdateAction_None, UpdateAction_Null)

StoreDeleteTask == \E c \in {None, Some(IdIs(1)), Some(IdIs(2))} : app_delete_task(c)

StoreDeleteProject == \E c \in {None, Some(IdIs(1))} : app_delete_project(c)

StoreAssign == \E a \in AssignPairs : app_assign_task(a[1], a[2])

StoreUnassign == \E a \in UnassignPairs : app_unassign_task(a[1], a[2])

\* `toado unassign <task> <project>` with an id or a part of a name
StoreUnassignCommand ==
    \E t \in {"1", "2", "milk"}, p \in {"1", "3"} : commands_unassign_task(t, p)

\* `toado assign <task> <project>` with an id or a part of a name
StoreAssignCommand ==
    \E t \in {"1", "3", "milk"}, p \in {"1", "3"} : commands_assign_task(t, p)

NextStore ==
    \/ OpenAndInit
    \/ StoreAddTask
    \/ StoreAddTaskByBuilder
    \/ StoreAddProject
    \/ StoreUpdateTask
    \/ StoreUpdateProject
    \/ StoreDeleteTask
    \/ StoreDeleteProject
    \/ StoreAssign
    \/ StoreUnassign
    \/ StoreAssignCommand
    \/ StoreUnassignCommand

SpecStore == InitAssign /\ [][NextStore]_vars

\* Every assignment names a task and a project the tables hold.
RefIntegrity(tb) ==
    \A i \in DOMAIN tb.task_assignments :
        /\ tb.task_assignments[i].task_id.t = "int"
        /\ tb.task_assignments[i].task_id.v \in DOMAIN tb.tasks
        /\ tb.task_assignments[i].project_id.t = "int"
        /\ tb.task_assignments[i].project_id.v \in DOMAIN tb.projects

\* The assignments that name a task or a project the step removed
Orphaned ==
    {i \in DOMAIN tables.task_assignments :
        \/ tables.task_assignments[i].task_id.v \in DOMAIN tables.tasks \ DOMAIN tables'.tasks
        \/ tables.task_assignments[i].project_id.v
               \in DOMAIN tables.projects \ DOMAIN tables'.projects}

\* C15: whatever adds, updates, deletions, assignments and unassignments were
\* made, every task_assignments row names a task and a project that exist; a
\* deletion of tasks or of projects succeeds and removes the assignments that
\* name a row it removed, and no other assignment.
C15_ReferentialIntegrity ==
    [][/\ RefIntegrity(tables)
       /\ RefIntegrity(tables')
       /\ res'.op \in {"delete_task", "delete_project"} =>
              /\ res'.ok
              /\ DOMAIN tables'.task_assignments
                     = DOMAIN tables.task_assignments \ Orphaned
              /\ \A i \in DOMAIN tables'.task_assignments :
                     tables'.task_assignments[i] = tables.task_assignments[i]]_vars

\* Project 1 was deleted with the two assignments that named it; the one
\* that names project 2 is still there.
C15_Witness ==
    /\ res.op = "delete_project"
    /\ res.args.condition = Some(IdIs(1))
    /\ res.ok
    /\ res.changes = 1
    /\ sqlite_sequence.task_assignments = 3
    /\ DOMAIN tables.task_assignments = {3}
    /\ tables.task_assignments[3].project_id = IntCell(2)

\* The table an add operation writes
AddedTo(op) ==
    CASE op \in {"Server::add_task", "add_task"} -> TasksTable
      [] op = "add_project" -> ProjectsTable

\* C16: sqlite_sequence holds, per table, the largest identifier the store
\* ever generated; it never decreases and no row has a larger one.  Each
\* successful add_task or add_project returns an identifier larger than it,
\* hence larger than all returned before, also those of deleted rows, and the
\* new row carries it; no operation changes the identifier of a row.
C16_IdentifiersIncrease ==
    [][/\ \A t \in TableNames :
              /\ sqlite_sequence'[t] >= sqlite_sequence[t]
              /\ \A i \in DOMAIN tables[t] : i <= sqlite_sequence[t]
              /\ \A i \in DOMAIN tables'[t] :
                     /\ i <= sqlite_sequence'[t]
                     /\ tables'[t][i].id = IntCell(i)
       /\ (res'.op \in {"Server::add_task", "add_task", "add_project"} /\ res'.ok) =>
              /\ res'.id > sqlite_sequence[AddedTo(res'.op)]
              /\ res'.id = sqlite_sequence'[AddedTo(res'.op)]
              /\ DOMAIN tables'[AddedTo(res'.op)]
                     = DOMAIN tables[AddedTo(res'.op)] \cup {res'.id}]_vars

\* Task 2 was deleted and the task added next got 3.
C16_Witness ==
    /\ res.op = "Server::add_task"
    /\ res.ok
    /\ res.id = 3
    /\ DOMAIN tables.tasks = {1, 3}

\* The task or the project an assignment names is not in the store
Missing(t, p) == t \notin DOMAIN tables.tasks \/ p \notin DOMAIN tables.projects

\* The identifier a search term names, 0 when the term is not a number
TermId(term) == IF term \in NumStrings THEN StrToInt(term) ELSE 0

\* C17: assign_task with a task id or a project id that names no row returns
\* an error after its one statement and leaves the three tables as they
\* were; the assign command given such an id returns an error before it
\* issues any statement, and leaves them as they were too.
C17_AssignToMissingFails ==
    [][/\ (res'.op = "assign_task"
           /\ Missing(res'.args.task_id, res'.args.project_id)) =>
              /\ ~res'.ok
              /\ tables' = tables
              /\ sqlite_sequence' = sqlite_sequence
              /\ steps' = steps + 1
       /\ (res'.op = "commands::assign_task"
           /\ \/ (res'.args.task_term \in NumStrings
                  /\ TermId(res'.args.task_term) \notin DOMAIN tables.tasks)
              \/ (res'.args.project_term \in NumStrings
                  /\ TermId(res'.args.project_term) \notin DOMAIN tables.projects)) =>
              /\ ~res'.ok
              /\ tables' = tables
              /\ sqlite_sequence' = sqlite_sequence
              /\ steps' = steps]_vars

\* Task 3 does not exist: its assignment to project 1 was refused and the one
\* assignment of the store is still the only one.
C17_Witness ==
    /\ res.op = "assign_task"
    /\ res.args = [task_id |-> 3, project_id |-> 1]
    /\ ~res.ok
    /\ steps = 1
    /\ DOMAIN tables.tasks = {1, 2}
    /\ DOMAIN tables.projects = {1, 2}
    /\ DOMAIN tables.task_assignments = {1}

\* C18: unassign_task(t, p), from the facade or from the unassign command,
\* succeeds and removes every task_assignments row that pairs task t with
\* project p, duplicates included; the rows of every other pair, the tasks and
\* the projects stay as they were, and nothing changes when no row pairs them.
C18_UnassignRemovesThePair ==
    [][(res'.op \in {"unassign_task", "commands::unassign_task"}
        /\ "task_id" \in DOMAIN res'.args) =>
           /\ res'.ok
           /\ res'.changes
                  = Cardinality(PairRows(tables, res'.args.task_id,
                                         res'.args.project_id))
           /\ DOMAIN tables'.task_assignments
                  = DOMAIN tables.task_assignments
                        \ PairRows(tables, res'.args.task_id, res'.args.project_id)
           /\ \A i \in DOMAIN tables'.task_assignments :
                  tables'.task_assignments[i] = tables.task_assignments[i]
           /\ tables'.tasks = tables.tasks
           /\ tables'.projects = tables.projects
           /\ PairRows(tables, res'.args.task_id, res'.args.project_id) = {} =>
                  tables' = tables]_vars

\* Task 1 was assigned to project 1 twice; one unassign removed both rows and
\* left the assignment of task 2.
C18_Witness ==
    /\ res.op = "unassign_task"
    /\ res.args = [task_id |-> 1, project_id |-> 1]
    /\ res.ok
    /\ res.changes = 2
    /\ sqlite_sequence.task_assignments = 3
    /\ DOMAIN tables.task_assignments = {2}
    /\ tables.task_assignments[2].task_id = IntCell(2)
    /\ tables.task_assignments[2].project_id = IntCell(1)

-----------------------------------------------------------------------------
(* commands/assignment.rs: the batch commands.                             *)

\* Pairs built project by project
create_id_pairs_project_major(task_ids, project_ids) ==
    [k \in 1..(Len(task_ids) * Len(project_ids)) |->
        <<task_ids[((k - 1) % Len(task_ids)) + 1],
          project_ids[((k - 1) \div Len(task_ids)) + 1]>>]

RECURSIVE flat_map_collect(_)
\* flat_map(..).collect(): the vectors the closure returned, one after another
flat_map_collect(vectors) ==
    IF vectors = <<>> THEN <<>>
    ELSE Head(vectors) \o flat_map_collect(Tail(vectors))

\* create_id_pairs: for each task id, its pair with each project id
create_id_pairs(task_ids, project_ids) ==
    flat_map_collect([i \in DOMAIN task_ids |->
                         [j \in DOMAIN project_ids |->
                             <<task_ids[i], project_ids[j]>>]])

\* create_name_pairs: for each task name, its pair with each project name
create_name_pairs(task_names, project_names) ==
    flat_map_collect([i \in DOMAIN task_names |->
                         [j \in DOMAIN project_names |->
                             <<task_names[i], project_names[j]>>]])

\* parse_task_names_and_ids and parse_project_names_and_ids: the ids and the
\* names of the selected items, an error when one has no id or no name.
parse_names_and_ids(items) ==
    IF \E i \in DOMAIN items : ~items[i].id.some \/ ~items[i].name.some
    THEN [ok |-> FALSE, ids |-> <<>>, names |-> <<>>]
    ELSE [ok |-> TRUE,
          ids |-> [i \in DOMAIN items |-> items[i].id.v],
          names |-> [i \in DOMAIN items |-> items[i].name.v]]

\* The items the user ticks in the list, by position in the list
Picks == {<<>>, <<1>>, <<1, 2>>, <<2, 1>>}

\* prompt_select_item: the listed items the user ticked
prompt_select_item(listed, pick) == [i \in DOMAIN pick |-> listed[pick[i]]]

\* The tasks and the projects the prompt lists
ListedTasks ==
    TaskRows(Execute(SelectTasksQuery_fmt(
                 SelectArgs(QueryCols_Some(<<"id", "name">>), None, Some("Name"),
                            None, Some(RowLimit_All), None)), Conn))

ListedProjects ==
    ProjectRows(Execute(SelectProjectsQuery_fmt(
                    SelectArgs(QueryCols_Some(<<"id", "name">>), None, Some("Name"),
                               None, Some(RowLimit_All), None)), Conn))

RECURSIVE ExecuteEach(_, _)
\* The statements of a batch executed one after the other, up to the first
\* the store refuses: issued counts those that were executed.
ExecuteEach(stmts, st) ==
    IF stmts = <<>>
    THEN [ok |-> TRUE, tables |-> st.tables, seq |-> st.seq, changes |-> 0,
          rowid |-> 0, issued |-> 0]
    ELSE \* one statement, then the rest on the store it left
         LET r == Execute(Head(stmts), st)
             rest == ExecuteEach(Tail(stmts), Store(r.tables, r.seq, st.fk))
         IN  IF ~r.ok
             THEN [ok |-> FALSE, tables |-> r.tables, seq |-> r.seq, changes |-> 0,
                   rowid |-> 0, issued |-> 1]
             ELSE [ok |-> rest.ok, tables |-> rest.tables, seq |-> rest.seq,
                   changes |-> r.changes + rest.changes,
                   rowid |-> IF rest.issued = 0 THEN r.rowid ELSE rest.rowid,
                   issued |-> 1 + rest.issued]

\* app.batch_assign_tasks(pairs): app.assign_task once per pair
batch_assign_tasks(pairs, st) ==
    ExecuteEach([k \in DOMAIN pairs |-> AssignTaskQuery_fmt(pairs[k][1], pairs[k][2])],
                st)

\* app.batch_unassign_tasks(pairs): app.unassign_task once per pair
batch_unassign_tasks(pairs, st) ==
    ExecuteEach([k \in DOMAIN pairs |-> unassign_task_sql(pairs[k][1], pairs[k][2])],
                st)

\* What a batch command hands back: the name pairs, with the selection and
\* the id pairs it passed to the facade.
BatchRes(op, tasks, projects, pairs, names, r) ==
    [op |-> op,
     args |-> [tasks |-> tasks, projects |-> projects, pairs |-> pairs,
               issued |-> r.issued],
     ok |-> r.ok, stmt |-> <<>>, id |-> IF r.ok THEN r.rowid ELSE 0,
     changes |-> IF r.ok THEN r.changes ELSE 0,
     rows |-> IF r.ok THEN names ELSE <<>>]

\* commands::assign_multiple_tasks
assign_multiple_tasks(tasks, projects) ==
    /\ CanMutate
    /\ parse_names_and_ids(tasks).ok
    /\ parse_names_and_ids(projects).ok
    /\ \E t \in {parse_names_and_ids(tasks)}, p \in {parse_names_and_ids(projects)} :
       \E assignment_ids \in {create_id_pairs(t.ids, p.ids)} :
       \E r \in {batch_assign_tasks(assignment_ids, Conn)} :
           /\ Mutate(r)
           /\ res' = BatchRes("commands::assign_multiple_tasks",
                              [ids |-> t.ids, names |-> t.names],
                              [ids |-> p.ids, names |-> p.names],
                              assignment_ids, create_name_pairs(t.names, p.names), r)

\* commands::unassign_multiple_tasks
unassign_multiple_tasks(tasks, projects) ==
    /\ CanMutate
    /\ parse_names_and_ids(tasks).ok
    /\ parse_names_and_ids(projects).ok
    /\ \E t \in {parse_names_and_ids(tasks)}, p \in {parse_names_and_ids(projects)} :
       \E unassignment_ids \in {create_id_pairs(t.ids, p.ids)} :
       \E r \in {batch_unassign_tasks(unassignment_ids, Conn)} :
           /\ Mutate(r)
           /\ res' = BatchRes("commands::unassign_multiple_tasks",
                              [ids |-> t.ids, names |-> t.names],
                              [ids |-> p.ids, names |-> p.names],
                              unassignment_ids,
                              create_name_pairs(t.names, p.names), r)

\* The selections the user can make from the lists of the store
Selected(listed) ==
    {prompt_select_item(listed, pick) :
        pick \in {q \in Picks : \A i \in DOMAIN q : q[i] <= Len(listed)}}

BatchAssign ==
    \E tasks \in Selected(ListedTasks), projects \in Selected(ListedProjects) :
        assign_multiple_tasks(tasks, projects)

BatchUnassign ==
    \E tasks \in Selected(ListedTasks), projects \in Selected(ListedProjects) :
        unassign_multiple_tasks(tasks, projects)

NextBatch ==
    \/ BatchAssign
    \/ BatchUnassign

SpecBatch == InitAssign /\ [][NextBatch]_vars

BatchOps == {"commands::assign_multiple_tasks", "commands::unassign_multiple_tasks"}

\* The number of pairs of a batch
PairCount(a) == Len(a.tasks.ids) * Len(a.projects.ids)

\* The positions, in the selections, of the task and the project of pair k
TaskAt(a, k) == ((k - 1) \div Len(a.projects.ids)) + 1

ProjectAt(a, k) == ((k - 1) % Len(a.projects.ids)) + 1

\* The rows of task_assignments that hold one of the pairs of a batch
BatchRows(tb, a) ==
    {i \in DOMAIN tb.task_assignments :
        \E k \in 1..PairCount(a) :
            /\ tb.task_assignments[i].task_id = IntCell(a.tasks.ids[TaskAt(a, k)])
            /\ tb.task_assignments[i].project_id
                   = IntCell(a.projects.ids[ProjectAt(a, k)])}

\* C19: a batch command over the selected tasks T and projects P succeeds,
\* passes the facade |T| * |P| pairs, the k-th being the task and the project
\* at the task-major positions of k, and the facade issues one statement for
\* each; the k-th reported name pair holds the names of the same task and
\* project.  A batch assign adds one row per pair, in that order, and a batch
\* unassign removes the rows that hold one of the pairs and no other.
C19_BatchAppliesEachPairOnce ==
    [][res'.op \in BatchOps =>
           /\ res'.ok
           /\ Len(res'.args.pairs) = PairCount(res'.args)
           /\ res'.args.issued = PairCount(res'.args)
           /\ Len(res'.rows) = PairCount(res'.args)
           /\ \A k \in 1..PairCount(res'.args) :
                  /\ res'.args.pairs[k]
                         = <<res'.args.tasks.ids[TaskAt(res'.args, k)],
                             res'.args.projects.ids[ProjectAt(res'.args, k)]>>
                  /\ res'.rows[k]
                         = <<res'.args.tasks.names[TaskAt(res'.args, k)],
                             res'.args.projects.names[ProjectAt(res'.args, k)]>>
           /\ tables'.tasks = tables.tasks
           /\ tables'.projects = tables.projects
           /\ res'.op = "commands::assign_multiple_tasks" =>
                  /\ DOMAIN tables'.task_assignments
                         = DOMAIN tables.task_assignments
                             \cup {sqlite_sequence.task_assignments + k :
                                       k \in 1..PairCount(res'.args)}
                  /\ \A i \in DOMAIN tables.task_assignments :
                         tables'.task_assignments[i] = tables.task_assignments[i]
                  /\ \A k \in 1..PairCount(res'.args) :
                         /\ tables'.task_assignments[
                                sqlite_sequence.task_assignments + k].task_id
                                = IntCell(res'.args.pairs[k][1])
                         /\ tables'.task_assignments[
                                sqlite_sequence.task_assignments + k].project_id
                                = IntCell(res'.args.pairs[k][2])
           /\ res'.op = "commands::unassign_multiple_tasks" =>
                  /\ DOMAIN tables'.task_assignments
                         = DOMAIN tables.task_assignments
                               \ BatchRows(tables, res'.args)
                  /\ \A i \in DOMAIN tables'.task_assignments :
                         tables'.task_assignments[i] = tables.task_assignments[i]
                  /\ res'.changes = Cardinality(BatchRows(tables, res'.args))]_vars

\* Tasks 2 and 1 were assigned to projects 1 and 2: four pairs in task-major
\* order, four new rows.
C19_Witness ==
    /\ res.op = "commands::assign_multiple_tasks"
    /\ res.ok
    /\ res.args.pairs = <<<<2, 1>>, <<2, 2>>, <<1, 1>>, <<1, 2>>>>
    /\ res.args.issued = 4
    /\ Len(res.rows) = 4
    /\ steps = 1
    /\ Cardinality(DOMAIN tables.task_assignments) = 6

\* C20: Server::init on a store that is initialized, whatever rows it holds,
\* succeeds, leaves every row of tasks, projects and task_assignments and the
\* identifier sequences as they were, and leaves foreign-key enforcement on.
C20_InitIsIdempotent ==
    [][res'.op = "Server::init" =>
           /\ res'.ok
           /\ tables' = tables
           /\ sqlite_sequence' = sqlite_sequence
           /\ foreign_keys']_vars

\* The store held three tasks, two projects and two assignments when the
\* next process opened it and called init.
C20_Witness ==
    /\ res.op = "Server::init"
    /\ res.ok
    /\ foreign_keys
    /\ steps = 1
    /\ DOMAIN tables.tasks = {1, 2, 3}
    /\ DOMAIN tables.projects = {1, 2}
    /\ DOMAIN tables.task_assignments = {1, 2}

-----------------------------------------------------------------------------
(* Selects of a subset of the columns.                                     *)

TaskFields ==
    {"id", "name", "priority", "status", "start_time", "end_time", "repeat", "notes"}

ProjectFields == {"id", "name", "start_time", "end_time", "notes"}

\* The column subsets the callers select
TaskProjections ==
    {<<"id", "name">>, <<"id", "status">>, <<"id", "name", "priority", "status">>,
     <<"name", "notes">>, <<"id", "start_time", "end_time", "repeat", "notes">>}

ProjectProjections == {<<"id", "name">>, <<"id", "end_time", "notes">>,
                       <<"name", "start_time">>}

ProjectionAddTask ==
    Server_add_task(AddTaskArgs("Buy milk", 3, "Complete", Some("2025-01-01"), None,
                                Some("daily"), None))

ProjectionAddTaskByBuilder ==
    app_add_task(AddTaskArgs("Walk dog", 0, "Incomplete", None, Some("2024-01-01"),
                             None, Some("memo")))

ProjectionSelectTasks ==
    \E c \in TaskProjections, w \in {None, Some(IdIs(1))} :
        app_select_tasks(SelectArgs(QueryCols_Some(c), w, None, None, None, None))

ProjectionLibSelectTasks ==
    \E c \in TaskProjections : Server_select_tasks(QueryCols_Some(c), None, None)

ProjectionSelectProject ==
    \E c \in ProjectProjections :
        app_select_project(SelectArgs(QueryCols_Some(c), None, None, None, None, None))

NextProjection ==
    \/ ProjectionAddTask
    \/ ProjectionAddTaskByBuilder
    \/ ProjectionSelectTasks
    \/ ProjectionLibSelectTasks
    \/ ProjectionSelectProject

SpecProjection == InitAdd /\ [][NextProjection]_vars

\* The columns a select named
Selected_cols(q) == {q.cols[j] : j \in 1..Len(q.cols)}

\* What a field holds when its column was selected and the row holds cell
Decoded(f, cell) ==
    CASE f = "id" -> IF cell.t = "int" THEN Some(cell.v) ELSE None
      [] f = "priority" -> IF cell.t = "int" /\ cell.v >= 0 THEN Some(cell.v) ELSE None
      [] f = "status" ->
             IF cell.t # "int" THEN None
             ELSE IF cell.v = 0 THEN Some("Incomplete")
             ELSE IF cell.v = 1 THEN Some("Complete")
             ELSE Some("Archived")
      [] OTHER -> IF cell.t = "text" THEN Some(cell.v) ELSE None

\* The entity e is what a select of the columns cs makes of a row of tb
ProjectionOf(e, cs, fields, tb) ==
    /\ \A f \in fields \ cs : e[f] = None
    /\ \E k \in DOMAIN tb : \A f \in fields \cap cs : e[f] = Decoded(f, tb[k][f])
    /\ ("id" \in cs) =>
           /\ e.id.some
           /\ e.id.v \in DOMAIN tb
           /\ \A f \in fields \cap cs : e[f] = Decoded(f, tb[e.id.v][f])

\* C21: a select of a column subset succeeds; in each entity it returns,
\* every field whose column was not selected is absent, and every field whose
\* column was selected holds the stored value when that value is not null and
\* decodes to the field's type, and is absent otherwise.
C21_PartialProjection ==
    /\ (res.op \in {"select_tasks", "Server::select_tasks"} /\ ~res.args.cols.all) =>
           /\ res.ok
           /\ \A i \in DOMAIN res.rows :
                  ProjectionOf(res.rows[i], Selected_cols(res.args.cols), TaskFields,
                               tables.tasks)
    /\ (res.op = "select_project" /\ ~res.args.cols.all) =>
           /\ res.ok
           /\ \A i \in DOMAIN res.rows :
                  ProjectionOf(res.rows[i], Selected_cols(res.args.cols),
                               ProjectFields, tables.projects)

\* A select of id and status returned a task whose stored status is a text:
\* its status is absent, and so are the fields that were not selected.
C21_Witness ==
    /\ res.op = "select_tasks"
    /\ res.ok
    /\ res.args.cols = QueryCols_Some(<<"id", "status">>)
    /\ \E i \in DOMAIN res.rows :
           /\ res.rows[i].id.some
           /\ tables.tasks[res.rows[i].id.v].status.t = "text"
           /\ res.rows[i].status = None
           /\ res.rows[i].name = None
    /\ \E i \in DOMAIN res.rows : res.rows[i].status = Some("Complete")

-----------------------------------------------------------------------------
(* Deletions: the facade and the delete commands.                          *)

\* The delete statement of the commands, on the row the user selected
delete_by_id(table, id) == DeleteQuery_build_query_string(table, Some(IdIs(id)))

\* What commands::delete_task and commands::delete_project return once the
\* delete ran: the id when a row was affected, the error when none was.
DeleteOutcome(op, term, id, gone, message, table, r) ==
    [op |-> op,
     args |-> [term |-> term, id |-> id, gone |-> gone,
               affected_rows |-> IF r.ok THEN r.changes ELSE 0],
     ok |-> r.ok /\ r.changes >= 1,
     stmt |-> delete_by_id(table, id),
     id |-> IF r.ok /\ r.changes >= 1 THEN id ELSE 0,
     changes |-> IF r.ok THEN r.changes ELSE 0,
     rows |-> IF r.ok /\ r.changes = 0 THEN <<message>> ELSE <<>>]

\* The store the delete of a command meets: the one it selected from, or,
\* when another process deleted the row while the prompt was open, that one
\* without the row.
StoreAtDelete(table, id, gone) ==
    IF gone THEN After(delete_by_id(table, id), Conn) ELSE Conn

\* commands::delete_task
commands_delete_task(term, gone) ==
    /\ CanMutate
    /\ \E found \in {TaskRows(prompt_task_selection(term, TaskSelectCols, Conn))} :
       \E i \in Choices(found) :
           IF i = 0 \/ ~found[i].id.some
           THEN /\ ~gone
                /\ Rejected("commands::delete_task", [term |-> term])
           ELSE \E r \in {Execute(delete_by_id(TasksTable, found[i].id.v),
                                  StoreAtDelete(TasksTable, found[i].id.v, gone))} :
                    /\ Mutate(r)
                    /\ res' = DeleteOutcome("commands::delete_task", term,
                                            found[i].id.v, gone, "no tasks deleted",
                                            TasksTable, r)

\* commands::delete_project
commands_delete_project(term, gone) ==
    /\ CanMutate
    /\ \E found \in {ProjectRows(prompt_project_selection(
                         term, QueryCols_Some(<<"id", "name", "start_time">>), Conn))} :
       \E i \in Choices(found) :
           IF i = 0 \/ ~found[i].id.some
           THEN /\ ~gone
                /\ Rejected("commands::delete_project", [term |-> term])
           ELSE \E r \in {Execute(delete_by_id(ProjectsTable, found[i].id.v),
                                  StoreAtDelete(ProjectsTable, found[i].id.v, gone))} :
                    /\ Mutate(r)
                    /\ res' = DeleteOutcome("commands::delete_project", term,
                                            found[i].id.v, gone, "no project deleted",
                                            ProjectsTable, r)

\* The predicates the callers delete by, each with the column and the cell a
\* row must hold to satisfy it
TaskPredicates ==
    {[condition |-> Some(IdIs(1)), col |-> "id", cell |-> IntCell(1)],
     [condition |-> Some(IdIs(3)), col |-> "id", cell |-> IntCell(3)],
     [condition |-> Some(QueryConditions_fmt(Equal("priority", "2"))),
      col |-> "priority", cell |-> IntCell(2)],
     [condition |-> Some(QueryConditions_fmt(Equal("name", "'Buy milk'"))),
      col |-> "name", cell |-> TextCell("Buy milk")]}

ProjectPredicates ==
    {[condition |-> Some(IdIs(1)), col |-> "id", cell |-> IntCell(1)],
     [condition |-> Some(IdIs(3)), col |-> "id", cell |-> IntCell(3)],
     [condition |-> Some(QueryConditions_fmt(Equal("name", "'work'"))),
      col |-> "name", cell |-> TextCell("work")]}

DeleteTasks ==
    \E c \in {None} \cup {p.condition : p \in TaskPredicates} : app_delete_task(c)

DeleteProjects ==
    \E c \in {None} \cup {p.condition : p \in ProjectPredicates} : app_delete_project(c)

LibDeleteTask ==
    \E q \in {Equal("id", "1"), Equal("id", "3"), Equal("priority", "2")} :
        Server_delete_task(q)

DeleteTaskCommand ==
    \E term \in {"1", "3", "milk"}, gone \in BOOLEAN : commands_delete_task(term, gone)

DeleteProjectCommand ==
    \E term \in {"2", "3", "o"}, gone \in BOOLEAN : commands_delete_project(term, gone)

NextDelete ==
    \/ StoreAddTask
    \/ DeleteTasks
    \/ DeleteProjects
    \/ LibDeleteTask
    \/ DeleteTaskCommand
    \/ DeleteProjectCommand

SpecDelete == InitAssign /\ [][NextDelete]_vars

\* The table a delete addresses and the predicate it carries
DeletedFrom(r) ==
    IF r.op \in {"delete_project", "commands::delete_project"} THEN ProjectsTable
    ELSE TasksTable

ConditionOf(r) ==
    IF r.op = "Server::delete_task" THEN Some(QueryConditions_fmt(r.args.query))
    ELSE r.args.condition

\* The rows of a table that satisfy the predicate of a delete
Satisfying(tb, t, condition) ==
    IF condition = None THEN DOMAIN tb[t]
    ELSE {k \in DOMAIN tb[t] :
             \E p \in TaskPredicates \cup ProjectPredicates :
                 p.condition = condition /\ tb[t][k][p.col] = p.cell}

\* C22: a delete on tasks or on projects succeeds and returns the number of
\* rows that satisfied its predicate before the call; it removes those rows
\* and leaves the others of the table as they were, and with no such row it
\* returns 0 and changes nothing.  The delete commands return the id of the
\* row they deleted, and the error 'no tasks deleted' or 'no project deleted'
\* when their delete affected no row.
C22_DeleteCountsAndRemoves ==
    [][/\ res'.op \in {"delete_task", "delete_project", "Server::delete_task"} =>
              /\ res'.ok
              /\ res'.changes
                     = Cardinality(Satisfying(tables, DeletedFrom(res'),
                                              ConditionOf(res')))
              /\ DOMAIN tables'[DeletedFrom(res')]
                     = DOMAIN tables[DeletedFrom(res')]
                           \ Satisfying(tables, DeletedFrom(res'), ConditionOf(res'))
              /\ \A k \in DOMAIN tables'[DeletedFrom(res')] :
                     tables'[DeletedFrom(res')][k] = tables[DeletedFrom(res')][k]
              /\ Satisfying(tables, DeletedFrom(res'), ConditionOf(res')) = {} =>
                     tables' = tables
       /\ (res'.op \in {"commands::delete_task", "commands::delete_project"}
           /\ "id" \in DOMAIN res'.args) =>
              /\ res'.args.affected_rows
                     = (IF res'.args.gone THEN 0 ELSE 1)
              /\ res'.args.id \notin DOMAIN tables'[DeletedFrom(res')]
              /\ DOMAIN tables'[DeletedFrom(res')]
                     = DOMAIN tables[DeletedFrom(res')] \ {res'.args.id}
              /\ res'.args.affected_rows >= 1 =>
                     res'.ok /\ res'.id = res'.args.id /\ res'.rows = <<>>
              /\ res'.args.affected_rows = 0 =>
                     /\ ~res'.ok
                     /\ res'.id = 0
                     /\ res'.rows = <<IF res'.op = "commands::delete_task"
                                      THEN "no tasks deleted"
                                      ELSE "no project deleted">>]_vars

\* Two tasks are named 'Buy milk' after the add; the delete by that name
\* removed both and left task 2.
C22_Witness ==
    /\ res.op = "delete_task"
    /\ res.args.condition = Some(QueryConditions_fmt(Equal("name", "'Buy milk'")))
    /\ res.ok
    /\ res.changes = 2
    /\ steps = 2
    /\ DOMAIN tables.tasks = {2}

-----------------------------------------------------------------------------
(* The assignment list of an update.                                       *)

\* The actions the builders are given for a column
TextActions(v) == {UpdateAction_None, UpdateAction_Null, UpdateAction_Some(v)}

PriorityActions == <<UpdateAction_None, UpdateAction_Null, UpdateAction_Some(5)>>

UpdateProjectRows ==
    {<<<<"name", n>>, <<"start_time", st>>, <<"end_time", et>>, <<"notes", nt>>>> :
        n \in {UpdateAction_None, UpdateAction_Some("home")},
        st \in TextActions("2025-01-01"), et \in TextActions("2024-01-01"),
        nt \in TextActions("memo")}

\* The actions of an UpdateTaskCols with their columns, in the declared order
TaskActionRow(u) ==
    <<<<"name", u.name>>, <<"priority", u.priority>>, <<"status", u.status>>,
      <<"start_time", u.start_time>>, <<"end_time", u.end_time>>,
      <<"repeat", u.repeat>>, <<"notes", u.notes>>>>

RenderUpdateTaskCols ==
    \E n \in TextActions("Walk dog"), p \in DOMAIN PriorityActions,
       s \in {UpdateAction_None, UpdateAction_Some("Complete")},
       st \in TextActions("2025-01-01"), et \in {UpdateAction_None, UpdateAction_Null},
       rp \in {UpdateAction_None, UpdateAction_Some("daily")},
       nt \in TextActions("memo") :
        \E u \in {UpdateTaskCols_new(n, PriorityActions[p], s, st, et, rp, nt)} :
            Rendered("UpdateTaskCols", TaskActionRow(u), UpdateTaskCols_fmt(u))

RenderUpdateCols ==
    \E cols \in UpdateProjectRows : Rendered("UpdateCols", cols, UpdateCols_fmt(cols))

NextUpdateRender ==
    \/ RenderUpdateTaskCols
    \/ RenderUpdateCols

SpecUpdateRender == InitRender /\ [][NextUpdateRender]_vars

\* The actions of a rendered row with their columns, in the declared order
ActionRow(r) == r.args

\* The text a Set action writes for its value
ValueText(col, v) ==
    CASE col = "priority" -> ToString(v)
      [] col = "status" ->
             IF v = "Incomplete" THEN "0" ELSE IF v = "Complete" THEN "1" ELSE "2"
      [] OTHER -> v

\* The number of actions up to the i-th that are not Untouched
Rank(row, i) == Cardinality({j \in 1..i : row[j][2].kind # "None"})

\* The list holds, for the i-th action of the row, if it is not Untouched,
\* the entry `col = value` at the place its rank gives, after one separator
\* when it is not the first; and the list holds nothing else.
AssignmentList(list, row) ==
    /\ Len(list) = IF Rank(row, Len(row)) = 0 THEN 0 ELSE 4 * Rank(row, Len(row)) - 1
    /\ \A i \in 1..Len(row) :
           row[i][2].kind # "None" =>
               /\ list[4 * Rank(row, i) - 3] = row[i][1]
               /\ list[4 * Rank(row, i) - 2] = " = "
               /\ list[4 * Rank(row, i) - 1]
                      = IF row[i][2].kind = "Null" THEN "NULL"
                        ELSE "'" \o ValueText(row[i][1], row[i][2].v) \o "'"
               /\ Rank(row, i) > 1 => list[4 * Rank(row, i) - 4] \in {",", ", "}

\* C23: the assignment list rendered from a row of update actions holds one
\* entry for each action that is Set or Null, in the declared column order,
\* and none for an Untouched action; a Null action renders `col = NULL`,
\* consecutive entries are separated by one comma, and the list is empty
\* exactly when every action is Untouched.
C23_AssignmentList ==
    res.op \in {"UpdateTaskCols", "UpdateCols"} =>
        /\ AssignmentList(res.stmt, ActionRow(res))
        /\ res.stmt = <<>> <=>
               \A i \in 1..Len(ActionRow(res)) : ActionRow(res)[i][2].kind = "None"

\* name is Untouched, priority is Set, start_time and notes are Null
C23_Witness ==
    /\ res.op = "UpdateTaskCols"
    /\ res.args[1][2].kind = "None"
    /\ res.args[2][2].kind = "Some"
    /\ res.args[4][2].kind = "Null"
    /\ res.stmt = <<"priority", " = ", "'5'", ",", "start_time", " = ", "NULL", ",",
                    "notes", " = ", "NULL">>

-----------------------------------------------------------------------------
(* The text of the select statements.                                      *)

\* The projections and the predicates the rendered selects carry
RenderedCols == {QueryCols_All, QueryCols_Some(<<"id", "name", "priority", "status">>)}

RenderedConditions == {None, Some(IdIs(1))}

RenderSelectTasks ==
    \E cols \in RenderedCols, c \in RenderedConditions, ob \in OptOrderBy,
       od \in OptOrderDir, l \in OptLimit, off \in OptOffset :
        \E q \in {SelectArgs(cols, c, ob, od, l, off)} :
            Rendered("SelectTasksQuery", q, SelectTasksQuery_fmt(q))

RenderSelectProjects ==
    \E cols \in RenderedCols, c \in RenderedConditions, ob \in OptOrderBy,
       od \in OptOrderDir, l \in OptLimit, off \in OptOffset :
        \E q \in {SelectArgs(cols, c, ob, od, l, off)} :
            Rendered("SelectProjectsQuery", q, SelectProjectsQuery_fmt(q))

\* SelectTasksQuery of lib.rs, which takes a list of conditions and neither
\* a limit nor an offset
RenderLibSelectTasks ==
    \E cols \in RenderedCols, given \in BOOLEAN, ob \in lib_OptOrderBy,
       od \in OptOrderDir :
        Rendered("lib::SelectTasksQuery",
                 SelectArgs(cols, IF given THEN Some(IdIs(1)) ELSE None, ob, od,
                            None, None),
                 lib_SelectTasksQuery_fmt(
                     cols, IF given THEN Some(<<<<Equal("id", "1"), None>>>>) ELSE None,
                     ob, od))

NextSelectRender ==
    \/ RenderSelectTasks
    \/ RenderSelectProjects
    \/ RenderLibSelectTasks

SpecSelectRender == InitRender /\ [][NextSelectRender]_vars

SelectBuilders == {"SelectTasksQuery", "SelectProjectsQuery", "lib::SelectTasksQuery"}

\* The statement up to its ORDER BY, as the select in res should render it
SelectHead ==
    <<"SELECT ">> \o QueryCols_fmt(res.args.cols)
    \o <<" FROM ", IF res.op = "SelectProjectsQuery" THEN ProjectsTable ELSE TasksTable>>
    \o (IF res.args.condition.some THEN <<" WHERE ">> \o res.args.condition.v ELSE <<>>)

\* What may follow the ORDER BY clause: the optional LIMIT and OFFSET, then
\* the terminator
SelectTails ==
    {<<";">>}
    \cup {<<" LIMIT ", n, ";">> : n \in NumStrings}
    \cup {<<" LIMIT ", n, " OFFSET ", m, ";">> : n \in NumStrings, m \in NumStrings}

\* The select with projection (id, name, priority, status), predicate id = 1
\* and no ordering or pagination arguments
PlainSelectById ==
    /\ res.op \in {"SelectTasksQuery", "lib::SelectTasksQuery"}
    /\ res.args = SelectArgs(QueryCols_Some(<<"id", "name", "priority", "status">>),
                             Some(IdIs(1)), None, None, None, None)

\* The builders of queries.rs only
C24_BuilderClauseOrder ==
    res.op \in {"SelectTasksQuery", "SelectProjectsQuery"} =>
        /\ Len(res.stmt) >= Len(SelectHead) + 5
        /\ SubSeq(res.stmt, 1, Len(SelectHead)) = SelectHead
        /\ res.stmt[Len(SelectHead) + 1] = " ORDER BY "
        /\ res.stmt[Len(SelectHead) + 3] = " "
        /\ res.stmt[Len(SelectHead) + 4] \in {"ASC", "DESC"}
        /\ SubSeq(res.stmt, Len(SelectHead) + 5, Len(res.stmt)) \in SelectTails
        /\ PlainSelectById =>
               Text(res.stmt) = "SELECT id, name, priority, status FROM tasks WHERE id = 1 ORDER BY priority DESC LIMIT 10;"

\* The builder rendered the select by id with its defaults
C24_BuilderWitness ==
    /\ res.op = "SelectTasksQuery"
    /\ PlainSelectById
    /\ Text(res.stmt) = "SELECT id, name, priority, status FROM tasks WHERE id = 1 ORDER BY priority DESC LIMIT 10;"

\* C24: every rendered select is SELECT <cols> FROM <table>, then
\* ` WHERE <predicate>` exactly when a predicate is supplied, then ORDER BY
\* <col> <dir>, then the optional LIMIT and OFFSET, then the terminator; the
\* task select of (id, name, priority, status) with predicate id = 1 and no
\* other argument is `SELECT id, name, priority, status FROM tasks WHERE
\* id = 1 ORDER BY priority DESC LIMIT 10;`.
C24_SelectClauseOrder ==
    res.op \in SelectBuilders =>
        /\ Len(res.stmt) >= Len(SelectHead) + 5
        /\ SubSeq(res.stmt, 1, Len(SelectHead)) = SelectHead
        /\ res.stmt[Len(SelectHead) + 1] = " ORDER BY "
        /\ res.stmt[Len(SelectHead) + 3] = " "
        /\ res.stmt[Len(SelectHead) + 4] \in {"ASC", "DESC"}
        /\ SubSeq(res.stmt, Len(SelectHead) + 5, Len(res.stmt)) \in SelectTails
        /\ PlainSelectById =>
               Text(res.stmt) = "SELECT id, name, priority, status FROM tasks WHERE id = 1 ORDER BY priority DESC LIMIT 10;"

-----------------------------------------------------------------------------
(* The terminator of the rendered statements.                              *)

RenderUpdateTask ==
    \E n \in {UpdateAction_None, UpdateAction_Some("Walk dog")},
       st \in TextActions("2025-01-01"), nt \in TextActions("memo"),
       c \in RenderedConditions :
        \E u \in {UpdateTaskCols_new(n, UpdateAction_None, UpdateAction_None, st,
                                     UpdateAction_None, UpdateAction_None, nt)} :
            Rendered("UpdateTaskQuery", [condition |-> c, update |-> u],
                     UpdateTaskQuery_fmt(u, c))

\* A builder that takes its text from UpdateQuery::build_query_string
RenderUpdateQuery ==
    \E cols \in UpdateProjectRows, c \in RenderedConditions :
        Rendered("UpdateQuery", [condition |-> c, update |-> cols],
                 UpdateQuery_build_query_string(ProjectsTable, cols, c))

RenderDeleteTask ==
    \E c \in RenderedConditions :
        Rendered("DeleteTaskQuery", [condition |-> c], DeleteTaskQuery_fmt(c))

RenderDeleteProject ==
    \E c \in RenderedConditions :
        Rendered("DeleteProjectQuery", [condition |-> c], DeleteProjectQuery_fmt(c))

NextStatementRender ==
    \/ RenderAddTask
    \/ RenderAddProject
    \/ RenderAssignTask
    \/ RenderUpdateTask
    \/ RenderUpdateQuery
    \/ RenderDeleteTask
    \/ RenderDeleteProject
    \/ RenderSelectTasks
    \/ RenderSelectProjects

SpecStatementRender == InitRender /\ [][NextStatementRender]_vars

\* The builders of queries.rs and queries/
StatementBuilders ==
    AddBuilders \cup {"UpdateTaskQuery", "UpdateQuery", "DeleteTaskQuery",
                      "DeleteProjectQuery", "SelectTasksQuery", "SelectProjectsQuery"}

\* The places of a statement that hold a terminator
Terminators(stmt) == {i \in 1..Len(stmt) : stmt[i] = ";"}

\* The task update with start_time = Null, the other actions Untouched, and
\* the predicate id = 1
NullStartTimeById ==
    /\ res.op = "UpdateTaskQuery"
    /\ res.args.condition = Some(IdIs(1))
    /\ res.args.update.name.kind = "None"
    /\ res.args.update.start_time.kind = "Null"
    /\ res.args.update.notes.kind = "None"

\* The builders other than UpdateTaskQuery end their statement once
C25_OtherBuildersTerminateOnce ==
    res.op \in StatementBuilders \ {"UpdateTaskQuery"} =>
        Terminators(res.stmt) = {Len(res.stmt)}

\* C25: a statement rendered by an Add, Update, Delete or Select builder,
\* with or without a predicate, ends with one `;` and holds no other; the
\* task update with start_time = Null and predicate id = 1 renders
\* `UPDATE tasks SET start_time = NULL WHERE id = 1;`.
C25_OneTerminator ==
    res.op \in StatementBuilders =>
        /\ Terminators(res.stmt) = {Len(res.stmt)}
        /\ NullStartTimeById =>
               Text(res.stmt) = "UPDATE tasks SET start_time = NULL WHERE id = 1;"

-----------------------------------------------------------------------------
(* The status a statement writes.                                          *)

StatusUpdateConditions == {None, Some(IdIs(1)), Some(IdIs(2))}

\* app.update_task with UpdateTaskArgs::update_status
UpdateStatus ==
    \E c \in StatusUpdateConditions, s \in ItemStatuses :
        app_update_task(c, UpdateTaskArgs_update_status(s))

NextStatusWrite ==
    \/ AddTaskByBuilder
    \/ UpdateStatus

SpecStatusWrite == InitAdd /\ [][NextStatusWrite]_vars

\* The rows of tasks a condition of an update selects
RowsUnder(condition) ==
    {k \in DOMAIN tables.tasks :
        condition.some => condition.v = IdIs(tables.tasks[k].id.v)}

\* The name of some status, as a literal of a statement
StatusNames == {Quoted(ItemStatus_fmt(s)) : s \in ItemStatuses}

\* The statement holds the name of no status
WritesNoStatusName == \A i \in DOMAIN res.stmt : res.stmt[i] \notin StatusNames

\* A task update with Set(status) writes the code of the status
C26_UpdateWritesCode ==
    (res.op = "update_task" /\ res.ok /\ res.args.update.status.kind = "Some") =>
        /\ WritesNoStatusName
        /\ \A k \in RowsUnder(res.args.condition) :
               tables.tasks[k].status =
                   IntCell(u32_from_ItemStatus(res.args.update.status.v))

\* An update set the status of the one task to Archived, stored as 2.
C26_UpdateWitness ==
    /\ res.op = "update_task"
    /\ res.ok
    /\ res.changes = 1
    /\ res.args.update.status = UpdateAction_Some("Archived")
    /\ \E k \in DOMAIN tables.tasks : tables.tasks[k].status = IntCell(2)

\* C26: a statement that writes the status of a task, the Add builder's or an
\* update's with Set(status), writes the code of the status (Incomplete 0,
\* Complete 1, Archived 2) and never its name; the stored status of a task
\* just added is the integer 0.
C26_StatusWrittenAsCode ==
    /\ C26_UpdateWritesCode
    /\ (res.op = "add_task" /\ res.ok) =>
           /\ WritesNoStatusName
           /\ \A k \in DOMAIN tables.tasks :
                  tables.tasks[k].id = IntCell(res.id) =>
                      tables.tasks[k].status = IntCell(0)

-----------------------------------------------------------------------------
(* The optional fields of a task: added, then read back.                   *)

OptionalFields == {"start_time", "end_time", "repeat", "notes"}

\* create_task: each optional field is given or left out
FieldInputs ==
    {AddTaskArgs("Buy milk", 3, "Incomplete", s, e, r, n) :
        s \in {None, Some("2025-01-01")}, e \in {None, Some("2024-01-01")},
        r \in {None, Some("daily")}, n \in {None, Some("memo")}}

FieldsAddTask == \E a \in FieldInputs : Server_add_task(a)

FieldsAddTaskByBuilder == \E a \in FieldInputs : app_add_task(a)

NextFields ==
    \/ FieldsAddTask
    \/ FieldsAddTaskByBuilder
    \/ SelectAdded
    \/ LibSelectAdded

SpecFields == InitAdd /\ [][NextFields]_vars

\* The task read back carries the optional fields as they were added
FieldsReadBack ==
    /\ res'.ok
    /\ Len(res'.rows) = 1
    /\ Reselected.id = Some(res.id)
    /\ \A f \in OptionalFields : Reselected[f] = res.args[f]

\* A task AddTaskQuery added, read back by the select builder, carries each
\* optional field given and lacks each one left out.
C27_BuilderFieldsRoundTrip ==
    [][/\ res'.op = "add_task" => res'.ok /\ res'.id = sqlite_sequence'.tasks
       /\ (res.op = "add_task" /\ res'.op = "select_tasks") => FieldsReadBack]_vars

\* A task added with a start time and notes and no end time and no repeat
\* was read back with these.
C27_BuilderWitness ==
    /\ res.op = "select_tasks"
    /\ res.ok
    /\ Len(res.rows) = 1
    /\ res.rows[1].start_time = Some("2025-01-01")
    /\ res.rows[1].notes = Some("memo")
    /\ res.rows[1].end_time = None
    /\ res.rows[1].repeat = None

\* C27: for every combination of optional fields (start_time, end_time,
\* repeat, notes) given and left out, add_task succeeds and returns the new
\* identifier, and a select of all columns for that identifier returns each
\* field given with its value and each field left out absent.
C27_OptionalFieldsRoundTrip ==
    [][/\ res'.op \in AddOps => res'.ok /\ res'.id = sqlite_sequence'.tasks
       /\ (res.op \in AddOps /\ res'.op \in ReadOps) => FieldsReadBack]_vars

-----------------------------------------------------------------------------
(* main.rs: the run of one process, from the arguments to the exit.        *)

\* A step of run(): its name and whether it returned Ok
MainStep(op, ok) ==
    [op |-> op, args |-> <<>>, ok |-> ok, stmt |-> <<>>, id |-> 0, changes |-> 0,
     rows |-> <<>>]

\* A database an earlier process left, and no process running
InitMain == InitAssign

\* The user runs the program: flags::Cli::parse
CliParse ==
    /\ res.op \in {"open", "process::exit"}
    /\ res' = MainStep("Cli::parse", TRUE)
    /\ UNCHANGED <<tables, sqlite_sequence, foreign_keys, steps>>

\* config::get_config: the file is read and parsed, or is not
get_config ==
    /\ res.op = "Cli::parse"
    /\ \E ok \in BOOLEAN : res' = MainStep("config::get_config", ok)
    /\ UNCHANGED <<tables, sqlite_sequence, foreign_keys, steps>>

\* init_database_path: HOME is read and the directory made, or is not
init_database_path ==
    /\ res.op = "config::get_config"
    /\ res.ok
    /\ \E ok \in BOOLEAN : res' = MainStep("init_database_path", ok)
    /\ UNCHANGED <<tables, sqlite_sequence, foreign_keys, steps>>

\* toado::Server::open(database_path): a connection, or an error
open_server ==
    /\ res.op = "init_database_path"
    /\ res.ok
    /\ \E ok \in BOOLEAN :
           /\ res' = MainStep("Server::open", ok)
           /\ foreign_keys' = IF ok THEN Server_open(Conn).fk ELSE foreign_keys
    /\ UNCHANGED <<tables, sqlite_sequence, steps>>

\* app.init(): the pragma and the tables, or an error that leaves the
\* database as it was, the pragma set or not
init_server ==
    /\ res.op = "Server::open"
    /\ res.ok
    /\ \/ /\ res' = MainStep("Server::init", TRUE)
          /\ \E st \in {Server_init(Conn)} :
                 /\ tables' = st.tables
                 /\ sqlite_sequence' = st.seq
                 /\ foreign_keys' = st.fk
       \/ /\ res' = MainStep("Server::init", FALSE)
          /\ foreign_keys' \in {foreign_keys, pragma_foreign_keys}
          /\ UNCHANGED <<tables, sqlite_sequence>>
    /\ UNCHANGED steps

\* An init whose error was not looked at
init_returned == res.op = "Server::init"

\* main: app.init() returned Ok, and run() goes on to the command
init_succeeded == res.op = "Server::init" /\ res.ok

\* handle_add: commands::create_task, with notes and without
MainAdd ==
    /\ init_succeeded
    /\ \E notes \in {None, Some("memo")} :
           Server_add_task(AddTaskArgs("Buy milk", 3, "Incomplete", None, None, None,
                                       notes))

\* handle_delete: commands::delete_task
MainDelete ==
    /\ init_succeeded
    /\ \E term \in {"1", "3", "milk"} : commands_delete_task(term, FALSE)

\* handle_assign: commands::assign_task
MainAssign ==
    /\ init_succeeded
    /\ StoreAssignCommand

\* handle_ls: commands::list_tasks
MainList ==
    /\ init_succeeded
    /\ \E c \in {QueryCols_All, TaskSelectCols} :
           app_select_tasks(SelectArgs(c, None, None, None, None, None))

\* No command and no search term: the name is printed
MainNoCommand ==
    /\ init_succeeded
    /\ res' = MainStep("println", TRUE)
    /\ UNCHANGED <<tables, sqlite_sequence, foreign_keys, steps>>

\* The results the handlers leave
MainHandlerOps ==
    {"Server::add_task", "commands::delete_task", "commands::assign_task",
     "select_tasks"}

\* run() returned: process::exit(1) on Err, the end of main on Ok
MainExit ==
    /\ res.op \notin {"open", "process::exit", "Cli::parse"}
    /\ ~res.ok \/ res.op \in MainHandlerOps \cup {"println"}
    /\ res' = [MainStep("process::exit", TRUE) EXCEPT
                   !.args = [status |-> IF res.ok THEN 0 ELSE 1, after |-> res.op]]
    /\ UNCHANGED <<tables, sqlite_sequence, foreign_keys, steps>>

NextMain ==
    \/ CliParse
    \/ get_config
    \/ init_database_path
    \/ open_server
    \/ init_server
    \/ MainAdd
    \/ MainDelete
    \/ MainAssign
    \/ MainList
    \/ MainNoCommand
    \/ MainExit

\* run() is sequential: once it has returned, main goes on to its end.
SpecMain == InitMain /\ [][NextMain]_vars /\ WF_vars(MainExit)

\* The rows of the three tables and their sequences are as they were
StoreUntouched == tables' = tables /\ sqlite_sequence' = sqlite_sequence

\* A step of run() or the command returned Err
MainFailed == res.op # "process::exit" /\ ~res.ok

ExitedWithOne == res.op = "process::exit" /\ res.args.status = 1

\* C28: a command or search handler runs only after config loading,
\* Server::open and Server::init have each returned Ok, in that order; when
\* one of these steps or the command fails, the next step is the exit, no
\* command touches the store, and the process ends with exit status 1.
C28_StartupOrder ==
    /\ [][/\ res'.op \in MainHandlerOps => res.op = "Server::init" /\ res.ok
          /\ res'.op = "Server::init" => res.op = "Server::open" /\ res.ok
          /\ res'.op = "Server::open" => res.op = "init_database_path" /\ res.ok
          /\ res'.op = "init_database_path" =>
                 res.op = "config::get_config" /\ res.ok
          /\ MainFailed =>
                 /\ res'.op = "process::exit"
                 /\ res'.args.status = 1
                 /\ StoreUntouched
          /\ (res'.op \in MainHandlerOps /\ ~res'.ok) => StoreUntouched]_vars
    /\ (MainFailed ~> ExitedWithOne)

\* A process whose init failed has ended with status 1, on a database of two
\* tasks that a process before it had added an assignment to.
C28_Witness ==
    /\ res.op = "process::exit"
    /\ res.args.status = 1
    /\ res.args.after = "Server::init"
    /\ steps = 1
    /\ Len(tables.tasks) = 2

-----------------------------------------------------------------------------
(* The values the update commands hand to the update builders.             *)

UpdateCommandOps == {"commands::update_task", "commands::update_project"}

\* An update command issued its statement
UpdateIssued == res.op \in UpdateCommandOps /\ res.stmt # <<>>

TextCols == {"name", "start_time", "end_time", "repeat", "notes"}

\* The command took its values from the prompts
Prompted ==
    IF res.op = "commands::update_task"
    THEN ~has_task_update_values(res.args.args)
    ELSE ~has_project_update_values(res.args.args)

\* The texts the user gave for a column: typed at its prompt, or after its flag
RawValues(col) ==
    IF Prompted THEN {a[col] : a \in Answers}
    ELSE IF col = "name" THEN {res.args.args.name.v}
    ELSE {res.args.args[col].v.v}

\* The literals the statement assigns to a column
AssignedTo(col) ==
    {res.stmt[i + 2] : i \in {j \in 1..(Len(res.stmt) - 2) :
                                  res.stmt[j] = col /\ res.stmt[j + 1] = " = "}}

\* The Set action of a column carries what the user gave, and the statement
\* assigns it between one pair of quotes
CarriesRawValue(col) ==
    LET a == res.args.update[col]
    IN  a.kind = "Some" =>
            /\ a.v \in RawValues(col)
            /\ AssignedTo(col) = {Quoted(a.v)}
            /\ Prompted => a.v \notin {"", Quoted("")}

\* The argument path of both commands and the prompts of update_project
\* hand over the value as given
C29_OtherPathsCarryRawValue ==
    (UpdateIssued /\ ~(res.op = "commands::update_task" /\ Prompted)) =>
        \A col \in TextCols \cap DOMAIN res.args.update : CarriesRawValue(col)

\* update_project, prompted, set the start time typed and nulled the end
\* time left empty
C29_OtherPathsWitness ==
    /\ UpdateIssued
    /\ res.op = "commands::update_project"
    /\ Prompted
    /\ res.ok
    /\ res.args.update.start_time = UpdateAction_Some("2025-01-01")
    /\ res.args.update.end_time = UpdateAction_Null
    /\ AssignedTo("start_time") = {"'2025-01-01'"}

\* C29: a Set(v) action that an update command hands to the update builder
\* carries the value v as given, so the assignment rendered is col = 'v' with
\* one layer of quotes, on the argument path and on the prompt path, for
\* tasks and for projects; an empty answer at the prompt of an optional
\* column becomes Null, never Set of an empty or quoted-empty text.
C29_SetCarriesRawValue ==
    UpdateIssued =>
        \A col \in TextCols \cap DOMAIN res.args.update : CarriesRawValue(col)

-----------------------------------------------------------------------------
(* flags.rs: parsing a TIME|NULL style argument.                           *)

\* clap hands the text typed after the flag to NullableString::from_str
ParseNullable ==
    \E w \in TypedWords :
        /\ res.op = "open"
        /\ res' = [op |-> "NullableString::from_str",
                   args |-> [s |-> Text(w), chars |-> w], ok |-> TRUE,
                   stmt |-> <<>>, id |-> 0, changes |-> 0,
                   rows |-> <<NullableString_from_str(Text(w))>>]
        /\ UNCHANGED <<tables, sqlite_sequence, foreign_keys, steps>>

\* The argument of the update command the parsed text becomes
ParsedIntoAction ==
    /\ res.op = "NullableString::from_str"
    /\ res' = [res EXCEPT !.op = "nullable_into_update_action",
                          !.rows = <<nullable_into_update_action(Some(res.rows[1]))>>]
    /\ UNCHANGED <<tables, sqlite_sequence, foreign_keys, steps>>

NextParse ==
    \/ ParseNullable
    \/ ParsedIntoAction

SpecParse == InitRender /\ [][NextParse]_vars

\* The letters spell null, in whatever case
SpellsNull(w) ==
    /\ Len(w) = 4
    /\ w[1] \in {"n", "N"}
    /\ w[2] \in {"u", "U"}
    /\ w[3] \in {"l", "L"}
    /\ w[4] \in {"l", "L"}

\* Parsing yields Null exactly for the texts that spell null in some case,
\* and never fails
C30_NullExactlyForNull ==
    res.op = "NullableString::from_str" =>
        /\ res.ok
        /\ res.rows[1].null <=> SpellsNull(res.args.chars)

\* NuLL was parsed into Null
C30_NullWitness ==
    /\ res.op = "NullableString::from_str"
    /\ res.args.s = "NuLL"
    /\ res.rows[1] = NullableString_Null

\* C30: parsing a TIME|NULL style argument s yields Null exactly when s
\* equals null ignoring case, and otherwise Some(s) carrying s as supplied,
\* the same characters in the same case; parsing never fails.
C30_ParseKeepsText ==
    res.op = "NullableString::from_str" =>
        /\ res.ok
        /\ res.rows[1] = IF SpellsNull(res.args.chars) THEN NullableString_Null
                         ELSE NullableString_Some(res.args.s)

====
